---- MODULE Spec2Model ----
(***************************************************************************)
(* Model of the multi-account credential pool of qwen-worker-proxy:        *)
(* MultiAccountAuthManager (src/src/multi-auth.ts) and the request         *)
(* executor QwenAPIClient.chatCompletions (src/unnamed/part_000, the       *)
(* qwen-client module).                                                    *)
(*                                                                         *)
(* Conventions.                                                            *)
(*  - Time is counted in minutes; `now` is Date.now() and a credential's   *)
(*    expiry_date is in the same unit, so minutesLeft = expiry_date - now. *)
(*    `today` is the UTC calendar day (toISOString().split('T')[0]).       *)
(*  - Probabilities and the Math.random() draw are in hundredths.          *)
(*  - 0 stands for JavaScript's null / undefined / '' (NoAccount, NoDate,  *)
(*    a missing token).                                                    *)
(*  - The KV namespace QWEN_TOKEN_CACHE is the record `kv`; its operations *)
(*    succeed (store faults are not part of these specifications).         *)
(*  - Every method of the manager runs without interleaving; the clock     *)
(*    moves between the steps of a request, at its network calls.          *)
(***************************************************************************)
EXTENDS Integers, Sequences, FiniteSets, TLC

VARIABLES
    kv,             \* QWEN_TOKEN_CACHE: ACCOUNT:<id>, FAILED_ACCOUNTS, LAST_FAILED_RESET_DATE
    now,            \* Date.now(), minutes
    today,          \* current UTC date
    issued,         \* number of access tokens handed out so far (token endpoint)
    authManager,    \* selectedAccount, selectedCredentials, forcedAccount
    pc,             \* position of chatCompletions: idle, auth, call, catch, switch, done
    stream,         \* request.stream
    retryCount,     \* chatCompletions' retryCount
    caught,         \* the error bound in chatCompletions' catch clause
    outcome,        \* what chatCompletions returned or threw
    calls,          \* history: provider chat-completion calls of the current request
    handled,        \* history: handleApiError invocations of the current request
    marked,         \* history: the accounts passed to markAccountAsFailed on this UTC day
    op,             \* history: the operation that produced this state, with its results
    http,           \* the Worker's key configuration, the last Authorization header, the 401 answer
    relay,          \* processSSEStream: upstream, buffer, lines in hand, output, position
    selections,     \* history: the account selections made for the current request
    workers,        \* concurrent markAccountAsFailed calls: position, locals, the puts made
    tokenCalls,     \* history: token-endpoint calls of the current request
    health          \* getAccountsHealth: its manager, its loop, the results so far

vars == <<kv, now, today, issued, authManager, pc, stream, retryCount, caught,
          outcome, calls, handled, marked, op, http, relay, selections, workers,
          tokenCalls, health>>

-----------------------------------------------------------------------------
(* Bounds of the model *)

NumAccounts == 2
MaxNow == 6
MaxDay == 3
MaxIssued == 2

(* The clock advances by this many minutes per tick. *)
TickStep == 6

(* Math.random(), in hundredths: the cumulative probabilities the table can
   produce for the first candidates, and points between and above them. *)
Draws == {5, 8, 10, 30, 50, 70, 85, 90, 99}

(* expires_in of a token response, minutes. *)
ExpiresIn == {3, 60}

-----------------------------------------------------------------------------
(* Values *)

NoAccount == 0
NoDate == 0
maxRetries == 1

AccountIds == 1..NumAccounts

Range(s) == {s[i] : i \in DOMAIN s}

Max(S) == CHOOSE x \in S : \A y \in S : y <= x

RECURSIVE SortedSeq(_)
SortedSeq(S) ==
    IF S = {} THEN <<>>
    ELSE LET x == CHOOSE y \in S : \A z \in S : y <= z
         IN  <<x>> \o SortedSeq(S \ {x})

(* null, as loadAccountCredentials returns it and as selectedCredentials starts. *)
(* An API endpoint as the client reads it: the host, whether the text starts
   with 'http', and how it ends ("", "/" or "/v1"). *)
Url(host, scheme, ending) == [host |-> host, scheme |-> scheme, ending |-> ending]

(* A credential without resource_url. *)
NoUrl == Url("", FALSE, "")

(* 'https://dashscope.aliyuncs.com/compatible-mode/v1' *)
QWEN_API_BASE_URL == Url("dashscope.aliyuncs.com/compatible-mode", TRUE, "/v1")

NoCred ==
    [loadable |-> FALSE, access_token |-> 0, refresh_token |-> 0, expiry_date |-> 0,
     resource_url |-> NoUrl]

(* No markAccountAsFailed call is under way. *)
NoWorkers == [w |-> <<>>, puts |-> <<>>]

(* No health check is running. *)
NoHealth ==
    [pc |-> "idle", forcedAccount |-> 0, allAccountIds |-> <<>>, index |-> 0,
     failedAccounts |-> <<>>, results |-> <<>>]

Cred(at, rt, exp) ==
    [loadable |-> TRUE, access_token |-> at, refresh_token |-> rt, expiry_date |-> exp,
     resource_url |-> NoUrl]

(* getApiEndpoint: the custom endpoint of the credential, given a scheme and
   the /v1 suffix if it lacks them, or the default endpoint. *)
getApiEndpoint(credentials) ==
    IF credentials.loadable /\ credentials.resource_url # NoUrl
    THEN Url(credentials.resource_url.host, TRUE, "/v1")
    ELSE QWEN_API_BASE_URL

(* An Error, by what the code reads of its message: the first run of three
   digits (extractStatusCode) and the substrings handleApiError looks for. *)
Err(tag, status, marks) == [tag |-> tag, status |-> status, marks |-> marks]

NoError == Err("none", 0, {})

StatusMark(status) ==
    CASE status = 401 -> {"401"}
      [] status = 429 -> {"429"}
      [] status = 500 -> {"500"}
      [] status = 502 -> {"502"}
      [] status = 504 -> {"504"}
      [] OTHER -> {}

(* `Qwen API error: ${response.status} - ${errorText}` *)
ProviderError(status, body) == Err("provider", status, StatusMark(status) \cup body)

(* 'No valid accounts available. All accounts may be failed or expired.' *)
ErrNoValidAccounts == Err("noValidAccounts", 0, {})

(* `Forced account ${id} not found in KV storage` *)
ErrForcedNotFound == Err("forcedNotFound", 0, {})

(* 'Failed to obtain access token' *)
ErrNoAccessToken == Err("noAccessToken", 0, {})

(* 'No alternative accounts available for retry' *)
ErrNoAlternative == Err("noAlternative", 0, {})

(* 'Maximum retries exceeded' *)
ErrMaxRetries == Err("maxRetries", 0, {})

(* 'No response body from Qwen API' *)
ErrNoBody == Err("noBody", 0, {})

(* `Token refresh failed for ${id}: ${error} - ${error_description}` *)
ErrRefresh(resp) == Err("refreshFailed", resp.status, resp.marks)

(* `No valid accounts available. Proactive refresh failed for ${id}: ${refreshError}` *)
ErrProactive(resp) == Err("proactiveRefreshFailed", resp.status, resp.marks)

-----------------------------------------------------------------------------
(* FailureRegistry *)

(* Variants of the daily reset, for comparison: one that empties the list
   without recording the day, one that empties it on every read, one that
   records the day without emptying the list. *)
ClearWithoutDating(s, day) ==
    IF s.LAST_FAILED_RESET_DATE # day
    THEN [s EXCEPT !.FAILED_ACCOUNTS = <<>>]
    ELSE s

ResetOnEveryRead(s, day) ==
    [s EXCEPT !.FAILED_ACCOUNTS = <<>>, !.LAST_FAILED_RESET_DATE = day]

DateWithoutClearing(s, day) ==
    IF s.LAST_FAILED_RESET_DATE # day
    THEN [s EXCEPT !.LAST_FAILED_RESET_DATE = day]
    ELSE s

checkAndResetFailedAccounts(s, day) ==
    IF s.LAST_FAILED_RESET_DATE # day
    THEN [s EXCEPT !.FAILED_ACCOUNTS = <<>>, !.LAST_FAILED_RESET_DATE = day]
    ELSE s

getFailedAccounts(s, day) ==
    LET s1 == checkAndResetFailedAccounts(s, day)
    IN  [kv |-> s1, failed |-> s1.FAILED_ACCOUNTS]

(* Variant: marking an account failed also removes its credential. *)
RetireFailedAccount(s, day, accountId) ==
    LET g == getFailedAccounts(s, day)
    IN  [g.kv EXCEPT !.FAILED_ACCOUNTS =
                         IF accountId \in Range(g.failed) THEN g.failed
                         ELSE Append(g.failed, accountId),
                     !.ACCOUNT[accountId] =
                         NoCred]

(* Variant: the failed list is read, and dated, but the account is not added. *)
ForgetsFailure(s, day, accountId) == getFailedAccounts(s, day).kv

markAccountAsFailed(s, day, accountId) ==
    LET g == getFailedAccounts(s, day)
    IN  IF accountId \notin Range(g.failed)
        THEN [g.kv EXCEPT !.FAILED_ACCOUNTS = Append(g.failed, accountId)]
        ELSE g.kv

-----------------------------------------------------------------------------
(* CredentialStore and TokenRefresher *)

(* QWEN_TOKEN_CACHE.list({ prefix: 'ACCOUNT:' }): the ids of the keys the
   store holds, in key order. *)
getAllAccountIds(s) == SortedSeq(DOMAIN s.ACCOUNT)

(* Variant: an account without a stored credential loads as an empty one. *)
LoadOrEmpty(s, accountId) ==
    [s.ACCOUNT[accountId] EXCEPT !.loadable = TRUE]

loadAccountCredentials(s, accountId) ==
    IF s.ACCOUNT[accountId].loadable THEN s.ACCOUNT[accountId] ELSE NoCred

(* What the token endpoint may answer: a non-2xx response with an error text,
   or a token with or without a new refresh token. *)
TokenResponses(n) ==
    {[ok |-> FALSE, access_token |-> 0, refresh_token |-> 0, expires_in |-> 0,
      status |-> 0, marks |-> m] : m \in {{}, {"unauthorized"}}}
    \cup
    (IF n < MaxIssued
     THEN {[ok |-> TRUE, access_token |-> n + 1, refresh_token |-> rt, expires_in |-> e,
            status |-> 0, marks |-> {}] : rt \in {0, n + 1}, e \in ExpiresIn}
     ELSE {})

(* Variants of the refresh, for comparison: one that stores whatever refresh
   token the response carries, one that blanks the stored access token when
   the endpoint refuses. *)
TakesProviderRefreshToken(s, t, accountId, refreshToken, resp) ==
    IF ~resp.ok
    THEN [ok |-> FALSE, kv |-> s, credentials |-> NoCred, error |-> ErrRefresh(resp)]
    ELSE LET newCredentials ==
                 Cred(resp.access_token, resp.refresh_token, t + resp.expires_in)
         IN  [ok |-> TRUE,
              kv |-> [s EXCEPT !.ACCOUNT[accountId] = newCredentials],
              credentials |-> newCredentials,
              error |-> NoError]

BlanksTokenOnRefusal(s, t, accountId, refreshToken, resp) ==
    IF ~resp.ok
    THEN [ok |-> FALSE, kv |-> [s EXCEPT !.ACCOUNT[accountId].access_token = 0],
          credentials |-> NoCred, error |-> ErrRefresh(resp)]
    ELSE LET newCredentials ==
                 Cred(resp.access_token,
                      IF resp.refresh_token # 0 THEN resp.refresh_token ELSE refreshToken,
                      t + resp.expires_in)
         IN  [ok |-> TRUE,
              kv |-> [s EXCEPT !.ACCOUNT[accountId] = newCredentials],
              credentials |-> newCredentials,
              error |-> NoError]

(* newCredentials is built from the token response and the old refresh token
   alone (lines 129-136): it has no resource_url. *)
refreshAccountToken(s, t, accountId, refreshToken, resp) ==
    IF ~resp.ok
    THEN [ok |-> FALSE, kv |-> s, credentials |-> NoCred, error |-> ErrRefresh(resp)]
    ELSE LET newCredentials ==
                 Cred(resp.access_token,
                      IF resp.refresh_token # 0 THEN resp.refresh_token ELSE refreshToken,
                      t + resp.expires_in)
         IN  [ok |-> TRUE,
              kv |-> [s EXCEPT !.ACCOUNT[accountId] = newCredentials],
              credentials |-> newCredentials,
              error |-> NoError]

-----------------------------------------------------------------------------
(* AccountSelector *)

minutesLeft(credentials, t) == credentials.expiry_date - t

(* Variant: the freshest rule is tried before the expired rule. *)
FreshestBeforeExpired(ml, maxFreshness) ==
    IF ml = maxFreshness THEN 85
    ELSE IF ml < 0 THEN 10
    ELSE IF ml > 30 THEN 70
    ELSE IF ml > 20 THEN 50
    ELSE IF ml > 10 THEN 30
    ELSE IF ml > 5 THEN 10
    ELSE 5

probability(ml, maxFreshness) ==
    IF ml < 0 THEN 10
    ELSE IF ml = maxFreshness THEN 85
    ELSE IF ml > 30 THEN 70
    ELSE IF ml > 20 THEN 50
    ELSE IF ml > 10 THEN 30
    ELSE IF ml > 5 THEN 10
    ELSE 5

RECURSIVE StrictWalk(_, _, _, _)
(* Variant: the walk stops only where the cumulative probability exceeds
   the draw. *)
StrictWalk(weights, i, cumulativeProbability, random) ==
    IF i > Len(weights) THEN 0
    ELSE IF random < cumulativeProbability + weights[i] THEN i
    ELSE StrictWalk(weights, i + 1, cumulativeProbability + weights[i], random)

RECURSIVE WeightedWalk(_, _, _, _)
(* The index of the first entry whose cumulative probability reaches the
   draw; 0 when the walk falls off the end of the list. *)
WeightedWalk(weights, i, cumulativeProbability, random) ==
    IF i > Len(weights) THEN 0
    ELSE IF random <= cumulativeProbability + weights[i] THEN i
    ELSE WeightedWalk(weights, i + 1, cumulativeProbability + weights[i], random)

(* Variant: the filter lets every account through. *)
IgnoreFailed(failedAccounts, id) == TRUE

(* allAccountIds.filter(id => !failedAccounts.includes(id)) *)
IsAvailable(failedAccounts, id) == id \notin Range(failedAccounts)

(* Variant: only the first candidate of the list can be the freshest. *)
FreshestOnlyFirst(s, t, availableAccountIds) ==
    LET credentials(id) == loadAccountCredentials(s, id)
        HasCreds(id) == credentials(id).loadable
        accountWeights == SelectSeq(availableAccountIds, HasCreds)
        ml(id) == minutesLeft(credentials(id), t)
        maxFreshness == Max({ml(accountWeights[i]) : i \in DOMAIN accountWeights})
    IN  [i \in DOMAIN accountWeights |->
            [accountId |-> accountWeights[i],
             credentials |-> credentials(accountWeights[i]),
             minutesLeft |-> ml(accountWeights[i]),
             probability |-> probability(ml(accountWeights[i]),
                                         IF i = 1 THEN maxFreshness
                                         ELSE maxFreshness + 1)]]

(* Lines 161-210: the candidates whose credentials load, in listing order,
   each with its minutesLeft and its probability. *)
weightedAccounts(s, t, availableAccountIds) ==
    LET credentials(id) == loadAccountCredentials(s, id)
        HasCreds(id) == credentials(id).loadable
        accountWeights == SelectSeq(availableAccountIds, HasCreds)
        ml(id) == minutesLeft(credentials(id), t)
        maxFreshness == Max({ml(accountWeights[i]) : i \in DOMAIN accountWeights})
    IN  [i \in DOMAIN accountWeights |->
            [accountId |-> accountWeights[i],
             credentials |-> credentials(accountWeights[i]),
             minutesLeft |-> ml(accountWeights[i]),
             probability |-> probability(ml(accountWeights[i]), maxFreshness)]]

selectBestAccount(s, t, day, random) ==
    LET g == getFailedAccounts(s, day)
        Avail(id) == IsAvailable(g.failed, id)
        availableAccountIds == SelectSeq(getAllAccountIds(g.kv), Avail)
        weighted == weightedAccounts(g.kv, t, availableAccountIds)
        weights == [i \in DOMAIN weighted |-> weighted[i].probability]
        hit == WeightedWalk(weights, 1, 0, random)
        chosen == weighted[IF hit = 0 THEN 1 ELSE hit]
    IN  IF Len(availableAccountIds) = 0 \/ Len(weighted) = 0
        THEN [found |-> FALSE, accountId |-> NoAccount, credentials |-> NoCred,
              kv |-> g.kv, failed |-> g.failed]
        ELSE [found |-> TRUE, accountId |-> chosen.accountId,
              credentials |-> chosen.credentials, kv |-> g.kv, failed |-> g.failed]

(* Variant: the first id of the list whose credential loads, expired or not. *)
FirstLoadable(s, t, ids) ==
    LET creds(id) == loadAccountCredentials(s, id)
        Usable(id) == creds(id).loadable
        usable == SelectSeq(ids, Usable)
    IN  IF Len(usable) = 0 THEN NoAccount ELSE usable[1]

(* The first id of the list whose credential loads and has expiry_date > now;
   NoAccount if there is none (the for loop of initializeAuth's catch). *)
FirstUnexpired(s, t, ids) ==
    LET creds(id) == loadAccountCredentials(s, id)
        Usable(id) == creds(id).loadable /\ creds(id).expiry_date > t
        usable == SelectSeq(ids, Usable)
    IN  IF Len(usable) = 0 THEN NoAccount ELSE usable[1]

(* The result of one method call on the manager: the manager and the store as
   the call leaves them, whether it threw and what, and what it did. *)
AuthResult(m, s, threw, error, kind, selected, failedRead, tokenCall) ==
    [mgr |-> m, kv |-> s, threw |-> threw, error |-> error, kind |-> kind,
     selected |-> selected, failedRead |-> failedRead, tokenCall |-> tokenCall]

Choice(state, kind, accountId, credentials, s, failedRead, error) ==
    [state |-> state, kind |-> kind, accountId |-> accountId, credentials |-> credentials,
     kv |-> s, failedRead |-> failedRead, error |-> error]

(* initializeAuth, lines 252-276: keep the current selection, take the forced
   account, or select one. *)
ChooseAccount(m, s, t, day, random) ==
    IF /\ m.selectedAccount # NoAccount
       /\ m.selectedCredentials.loadable
       /\ minutesLeft(m.selectedCredentials, t) > 5
    THEN Choice("reused", "reused", m.selectedAccount, m.selectedCredentials, s, {}, NoError)
    ELSE IF m.forcedAccount # NoAccount
    THEN LET forcedCredentials == loadAccountCredentials(s, m.forcedAccount)
         IN  IF ~forcedCredentials.loadable
             THEN Choice("threw", "forced", NoAccount, NoCred, s, {}, ErrForcedNotFound)
             ELSE Choice("chosen", "forced", m.forcedAccount, forcedCredentials, s, {}, NoError)
    ELSE LET selection == selectBestAccount(s, t, day, random)
         IN  IF ~selection.found
             THEN Choice("threw", "normal", NoAccount, NoCred, selection.kv,
                         Range(selection.failed), ErrNoValidAccounts)
             ELSE Choice("chosen", "normal", selection.accountId, selection.credentials,
                         selection.kv, Range(selection.failed), NoError)

(* initializeAuth, lines 278-311: the selection has been made; refresh it if
   it is expired, and on a failed refresh look for another account. *)
UseSelection(m, c, t, day, resp) ==
    IF c.credentials.expiry_date < t
    THEN LET rr == refreshAccountToken(c.kv, t, c.accountId, c.credentials.refresh_token, resp)
             g == getFailedAccounts(c.kv, day)
             Other(id) == IsAvailable(g.failed, id) /\ id # c.accountId
             availableIds == SelectSeq(getAllAccountIds(g.kv), Other)
             fallback == FirstUnexpired(g.kv, t, availableIds)
             failedRead == c.failedRead \cup Range(g.failed)
         IN  IF rr.ok
             THEN AuthResult([m EXCEPT !.selectedAccount = c.accountId,
                                       !.selectedCredentials = rr.credentials],
                             rr.kv, FALSE, NoError, c.kind, c.accountId, c.failedRead, TRUE)
             ELSE IF fallback # NoAccount
             THEN AuthResult([m EXCEPT !.selectedAccount = fallback,
                                       !.selectedCredentials =
                                           loadAccountCredentials(g.kv, fallback)],
                             g.kv, FALSE, NoError, c.kind, c.accountId, failedRead, TRUE)
             ELSE AuthResult(m, g.kv, TRUE, ErrProactive(resp), c.kind, c.accountId,
                             failedRead, TRUE)
    ELSE AuthResult([m EXCEPT !.selectedAccount = c.accountId,
                              !.selectedCredentials = c.credentials],
                    c.kv, FALSE, NoError, c.kind, c.accountId, c.failedRead, FALSE)

(* initializeAuth, given the choice c = ChooseAccount(m, ...) of its first
   part and the token endpoint's answer to the refresh it may attempt. *)
initializeAuth(m, c, t, day, resp) ==
    IF c.state = "reused"
    THEN AuthResult(m, c.kv, FALSE, NoError, "reused", c.accountId, {}, FALSE)
    ELSE IF c.state = "threw"
    THEN AuthResult(m, c.kv, TRUE, c.error, c.kind, NoAccount, c.failedRead, FALSE)
    ELSE UseSelection(m, c, t, day, resp)

(* this.selectedAccount = null; this.selectedCredentials = null *)
ClearSelection(m) ==
    [m EXCEPT !.selectedAccount = NoAccount, !.selectedCredentials = NoCred]

forceSelectAccount(m, accountId) ==
    [ClearSelection(m) EXCEPT !.forcedAccount = accountId]

clearForcedAccount(m) ==
    [ClearSelection(m) EXCEPT !.forcedAccount = NoAccount]

(* switchAccount, given the choice c = ChooseAccount(ClearSelection(m), ...). *)
switchAccount(m, c, t, day, resp) ==
    LET r == initializeAuth(ClearSelection(m), c, t, day, resp)
    IN  [result |-> r, switched |-> ~r.threw /\ r.mgr.selectedAccount # NoAccount]

-----------------------------------------------------------------------------
(* RetryCoordinator *)

extractStatusCode(error) == error.status

(* Variant: only the status code makes an error Unauthorized. *)
UnauthorizedByStatusOnly(error) == extractStatusCode(error) = 401

IsUnauthorized(error) ==
    \/ extractStatusCode(error) = 401
    \/ "401" \in error.marks
    \/ "unauthorized" \in error.marks

(* Variant: server errors are taken for quota errors. *)
QuotaOrServerError(error) ==
    \/ extractStatusCode(error) \in {429, 500, 502, 504}
    \/ error.marks \cap {"429", "quota", "rate limit", "500", "502", "504"} # {}

IsQuotaExceeded(error) ==
    \/ extractStatusCode(error) = 429
    \/ "429" \in error.marks
    \/ "quota" \in error.marks
    \/ "rate limit" \in error.marks

IsServerError(error) ==
    \/ extractStatusCode(error) \in {500, 502, 504}
    \/ error.marks \cap {"500", "502", "504"} # {}

(* The result of handleApiError: its return value, the manager and the store
   as it leaves them, and what it did (the class it put the error in, whether
   it asked the token endpoint, the accounts it passed to markAccountAsFailed).
   A variant for comparison always asks for a retry. *)
RetriesAlways(m, s, shouldRetry, newAccount, kind, tokenCall, markedFailed) ==
    [mgr |-> m, kv |-> s, shouldRetry |-> TRUE, newAccount |-> newAccount,
     kind |-> kind, tokenCall |-> tokenCall, markedFailed |-> markedFailed]

HandleResult(m, s, shouldRetry, newAccount, kind, tokenCall, markedFailed) ==
    [mgr |-> m, kv |-> s, shouldRetry |-> shouldRetry, newAccount |-> newAccount,
     kind |-> kind, tokenCall |-> tokenCall, markedFailed |-> markedFailed]

(* Whether handleApiError asks the token endpoint (lines 339, 349, 350). *)
TriesRefresh(m, error, rc) ==
    /\ m.selectedAccount # NoAccount
    /\ IsUnauthorized(error)
    /\ m.selectedCredentials.refresh_token # 0
    /\ rc = 0

handleApiError(m, s, t, day, error, rc, resp) ==
    IF m.selectedAccount = NoAccount
    THEN HandleResult(m, s, FALSE, FALSE, "noAccount", FALSE, {})
    ELSE IF IsUnauthorized(error)
    THEN LET tryRefresh == TriesRefresh(m, error, rc)
             rr == refreshAccountToken(s, t, m.selectedAccount,
                                       m.selectedCredentials.refresh_token, resp)
             refreshed == loadAccountCredentials(rr.kv, m.selectedAccount)
         IN  IF tryRefresh /\ rr.ok /\ refreshed.loadable
             THEN HandleResult([m EXCEPT !.selectedCredentials = refreshed], rr.kv,
                               TRUE, FALSE, "Unauthorized", TRUE, {})
             ELSE HandleResult(m, markAccountAsFailed(s, day, m.selectedAccount),
                               rc = 0, TRUE, "Unauthorized", tryRefresh,
                               {m.selectedAccount})
    ELSE IF IsQuotaExceeded(error)
    THEN HandleResult(m, markAccountAsFailed(s, day, m.selectedAccount),
                      rc = 0, TRUE, "QuotaExceeded", FALSE, {m.selectedAccount})
    ELSE IF IsServerError(error)
    THEN HandleResult(m, s, rc = 0, TRUE, "ProviderUnavailable", FALSE, {})
    ELSE IF rc = 0
    THEN HandleResult(m, s, TRUE, TRUE, "Other", FALSE, {})
    ELSE HandleResult(m, s, FALSE, FALSE, "Other", FALSE, {})

-----------------------------------------------------------------------------
(* The API key middleware of /v1/* (index.ts) *)

(* An API key as the middleware compares it: the key, and whether the text
   carries surrounding blanks (which trim() removes from a configured entry
   and nothing removes from the key a request provides). *)
Key(id, pad) == [id |-> id, pad |-> pad]

Trim(key) == [key EXCEPT !.pad = FALSE]

(* An Authorization header: absent, or a scheme and what follows it. *)
NoHeader == [scheme |-> "", key |-> Key(0, FALSE)]

Header(scheme, key) == [scheme |-> scheme, key |-> key]

(* The empty / undefined environment string. *)
NoKeys == <<>>

(* const apiKeys = c.env.OPENAI_API_KEYS || c.env.OPENAI_API_KEY *)
apiKeys(h) == IF h.OPENAI_API_KEYS # NoKeys THEN h.OPENAI_API_KEYS ELSE h.OPENAI_API_KEY

(* apiKeys.split(',').map(key => key.trim()) *)
validKeys(h) == {Trim(k) : k \in Range(apiKeys(h))}

(* Variant: any Bearer header passes. *)
AnyBearer(h, authHeader) ==
    IF apiKeys(h) # NoKeys
    THEN authHeader # NoHeader /\ authHeader.scheme = "Bearer"
    ELSE TRUE

(* The middleware calls next(). *)
Authorized(h, authHeader) ==
    IF apiKeys(h) # NoKeys
    THEN /\ authHeader # NoHeader
         /\ authHeader.scheme = "Bearer"
         /\ authHeader.key \in validKeys(h)
    ELSE TRUE

NoKeysConfigured ==
    [OPENAI_API_KEYS |-> NoKeys, OPENAI_API_KEY |-> NoKeys,
     authHeader |-> NoHeader, status |-> 0]

(* What a client may send. *)
Headers ==
    {NoHeader, Header("Basic", Key(1, FALSE)), Header("bearer", Key(1, FALSE))}
    \cup {Header("Bearer", Key(id, FALSE)) : id \in 1..4}
    \cup {Header("Bearer", Key(1, TRUE))}

(* The header is read only when keys are configured. *)
HeadersRead == IF apiKeys(http) # NoKeys THEN Headers ELSE {NoHeader}

RelayIdle == [pc |-> "idle"]

-----------------------------------------------------------------------------
(* The environment: what the store may hold at the start, what the provider
   and the callers may send. *)

(* Stored credentials: unreadable, expired, expiring this very minute, short
   lived without a refresh token, fresh, and fresh without an access token. *)
InitCreds ==
    {NoCred, Cred(1, 1, -1), Cred(1, 1, 0), Cred(1, 0, 8), Cred(1, 1, 40), Cred(0, 1, 40)}

(* The failed list of the day, or a list that no read has dated yet. A list
   dated on an earlier day comes about when the day changes. *)
InitStores ==
    {[ACCOUNT |-> a, FAILED_ACCOUNTS |-> SortedSeq(f), LAST_FAILED_RESET_DATE |-> 2] :
        a \in [AccountIds -> InitCreds], f \in SUBSET AccountIds}
    \cup
    {[ACCOUNT |-> a, FAILED_ACCOUNTS |-> f, LAST_FAILED_RESET_DATE |-> NoDate] :
        a \in [AccountIds -> InitCreds], f \in {<<>>, SortedSeq(AccountIds)}}

(* The provider's answers to a chat-completion call: response.status and
   whether the response has a body. *)
ProviderOutcomes ==
    {[status |-> st, hasBody |-> TRUE] : st \in {200, 400, 401, 429, 500}}
    \cup {[status |-> 200, hasBody |-> FALSE]}

(* Errors a caller may pass to handleApiError. *)
HandleErrors ==
    {ProviderError(st, {}) : st \in {400, 401, 429, 500}}
    \cup {ProviderError(500, {"unauthorized"}), ProviderError(400, {"quota"})}

NewManager ==
    [selectedAccount |-> NoAccount, selectedCredentials |-> NoCred, forcedAccount |-> NoAccount]

NoOutcome == [kind |-> "none", error |-> NoError]

Failure(error) == [kind |-> "error", error |-> error]

(* No answer of the token endpoint: the call did not ask it. *)
NoAnswer ==
    [ok |-> FALSE, access_token |-> 0, refresh_token |-> 0, expires_in |-> 0,
     status |-> 0, marks |-> {}]

OpNone ==
    [name |-> "init", kind |-> "", threw |-> FALSE, error |-> NoError,
     selected |-> NoAccount, failedRead |-> {}, tokenCall |-> FALSE, stale |-> FALSE,
     returned |-> <<>>, shouldRetry |-> FALSE, newAccount |-> FALSE,
     attempt |-> 0, account |-> NoAccount, answer |-> NoAnswer, again |-> FALSE,
     message |-> <<>>]

(* The failed list is dated on another day, or not at all, and holds entries. *)
Stale == kv.LAST_FAILED_RESET_DATE # today /\ kv.FAILED_ACCOUNTS # <<>>

Init ==
    /\ kv \in InitStores
    /\ now = 0
    /\ today = 2
    /\ issued = 1
    /\ authManager = NewManager
    /\ pc = "idle"
    /\ stream = FALSE
    /\ retryCount = 0
    /\ caught = NoError
    /\ outcome = NoOutcome
    /\ calls = <<>>
    /\ handled = <<>>
    /\ marked = {}
    /\ op = OpNone
    /\ http = NoKeysConfigured
    /\ relay = RelayIdle
    /\ selections = 0
    /\ workers = NoWorkers
    /\ tokenCalls = <<>>
    /\ health = NoHealth

-----------------------------------------------------------------------------
(* The clock *)

Tick ==
    /\ now + TickStep <= MaxNow
    /\ now' = now + TickStep
    /\ op' = [OpNone EXCEPT !.name = "tick"]
    /\ UNCHANGED <<health, tokenCalls, workers, selections, http, relay, kv, today, issued, authManager, pc, stream, retryCount, caught,
                   outcome, calls, handled, marked>>

Midnight ==
    /\ today < MaxDay
    /\ today' = today + 1
    /\ marked' = {}
    /\ op' = [OpNone EXCEPT !.name = "midnight"]
    /\ UNCHANGED <<health, tokenCalls, workers, selections, http, relay, kv, now, issued, authManager, pc, stream, retryCount, caught,
                   outcome, calls, handled>>

-----------------------------------------------------------------------------
(* Steps shared by the executor and by direct callers of the manager *)

OpOfAuth(name, r, resp) ==
    [OpNone EXCEPT !.name = name, !.kind = r.kind, !.threw = r.threw, !.error = r.error,
                   !.selected = r.selected, !.failedRead = r.failedRead,
                   !.tokenCall = r.tokenCall, !.account = r.mgr.selectedAccount,
                   !.stale = Stale, !.answer = IF r.tokenCall THEN resp ELSE NoAnswer]

OpOfHandle(h, error, rc, resp) ==
    [OpNone EXCEPT !.name = "handleApiError", !.kind = h.kind,
                   !.shouldRetry = h.shouldRetry, !.newAccount = h.newAccount,
                   !.tokenCall = h.tokenCall, !.attempt = rc,
                   !.account = authManager.selectedAccount, !.stale = Stale,
                   !.answer = IF h.tokenCall THEN resp ELSE NoAnswer]

(* The token endpoint's answers to a call that asks it; a call that does not
   ask is given a refusal it never looks at. *)
Refusal == CHOOSE resp \in TokenResponses(issued) : ~resp.ok /\ resp.marks = {}

Answers(asks) == IF asks THEN TokenResponses(issued) ELSE {Refusal}

(* The choices initializeAuth can make, over the draws of Math.random(). *)
Choices(m) == {ChooseAccount(m, kv, now, today, random) : random \in Draws}

AsksToRefresh(c) == c.state = "chosen" /\ c.credentials.expiry_date < now

(* The selections a call of initializeAuth makes: none when it keeps the
   manager's current account (line 257), else one (lines 262-276). *)
Picks(c) == IF c.state = "reused" THEN 0 ELSE 1

Issue(tokenCall, resp) == IF tokenCall /\ resp.ok THEN issued + 1 ELSE issued

(* The fetch of the token endpoint inside refreshAccountToken: one per
   invocation, made by the named caller during the attempt in progress. *)
TokenCallsAfter(tokenCall, caller) ==
    IF tokenCall THEN Append(tokenCalls, [by |-> caller, attempt |-> retryCount])
    ELSE tokenCalls

-----------------------------------------------------------------------------
(* RequestExecutor: QwenAPIClient.chatCompletions, one request at a time *)

MaxCalls == 3

(* The end of the catch block: retryCount++ and the loop condition. *)
NextAttempt ==
    /\ retryCount' = retryCount + 1
    /\ IF retryCount + 1 <= maxRetries
       THEN pc' = "auth" /\ outcome' = outcome
       ELSE pc' = "done" /\ outcome' = Failure(ErrMaxRetries)

(* new QwenAPIClient(env) and the call of chatCompletions (routes/openai). *)
NewRequest ==
    /\ pc \in {"idle", "done"}
    /\ \E authHeader \in HeadersRead :
         /\ Authorized(http, authHeader)
         /\ http' = [http EXCEPT !.authHeader = authHeader, !.status = 0]
    /\ pc' = "auth"
    /\ stream' \in BOOLEAN
    /\ authManager' = NewManager
    /\ retryCount' = 0
    /\ caught' = NoError
    /\ outcome' = NoOutcome
    /\ calls' = <<>>
    /\ handled' = <<>>
    /\ selections' = 0
    /\ tokenCalls' = <<>>
    /\ op' = [OpNone EXCEPT !.name = "newRequest"]
    /\ UNCHANGED <<health, workers, relay, kv, now, today, issued, marked>>

(* await this.authManager.initializeAuth() and the access token check. *)
Authenticate ==
    /\ pc = "auth"
    /\ \E c \in Choices(authManager) :
         \E resp \in Answers(AsksToRefresh(c)) :
            LET r == initializeAuth(authManager, c, now, today, resp)
            IN  /\ authManager' = r.mgr
                /\ kv' = r.kv
                /\ issued' = Issue(r.tokenCall, resp)
                /\ op' = OpOfAuth("initializeAuth", r, resp)
                /\ selections' = selections + Picks(c)
                /\ tokenCalls' = TokenCallsAfter(r.tokenCall, "initializeAuth")
                /\ IF r.threw
                   THEN pc' = "catch" /\ caught' = r.error
                   ELSE IF r.mgr.selectedCredentials.access_token = 0
                   THEN pc' = "catch" /\ caught' = ErrNoAccessToken
                   ELSE pc' = "call" /\ caught' = caught
    /\ UNCHANGED <<health, workers, http, relay, now, today, stream, retryCount, outcome, calls, handled, marked>>

(* Variants of the executor's reaction to a failed provider call, for
   comparison: the call is issued again without counting the attempt; the
   rejection is caught by the catch clause (`return await ...`). *)
ReissueWithoutCounting(error) ==
    /\ pc' = "call"
    /\ outcome' = outcome
    /\ caught' = caught

CaughtByCatchClause(error) ==
    /\ pc' = "catch"
    /\ outcome' = outcome
    /\ caught' = error

(* Where a failed provider call leaves chatCompletions. The call is returned
   from inside the try block without being awaited (`return this.handle...`),
   so its rejection settles the promise chatCompletions returned: the catch
   clause does not run. *)
AfterProviderFailure(error) ==
    /\ pc' = "done"
    /\ outcome' = Failure(error)
    /\ caught' = caught

(* handleNonStreamingChatCompletion / handleStreamingChatCompletion: the fetch
   and the checks of response.ok and response.body. *)
ProviderCall ==
    /\ pc = "call"
    /\ Len(calls) < MaxCalls
    /\ \E answer \in ProviderOutcomes :
         LET error == IF answer.status # 200 THEN ProviderError(answer.status, {})
                      ELSE IF stream /\ ~answer.hasBody THEN ErrNoBody
                      ELSE NoError
         IN  /\ calls' = Append(calls, [account |-> authManager.selectedAccount,
                                        access_token |-> authManager.selectedCredentials.access_token,
                                        endpoint |-> getApiEndpoint(authManager.selectedCredentials),
                                        status |-> answer.status, error |-> error,
                                        attempt |-> retryCount])
             /\ op' = [OpNone EXCEPT !.name = "providerCall", !.error = error,
                                     !.account = authManager.selectedAccount]
             /\ IF error # NoError
                THEN AfterProviderFailure(error)
                ELSE /\ pc' = "done"
                     /\ caught' = caught
                     /\ outcome' = [kind |-> IF stream THEN "stream" ELSE "completion",
                                    error |-> NoError]
    /\ UNCHANGED <<health, tokenCalls, workers, selections, http, relay, kv, now, today, issued, authManager, stream, retryCount, handled, marked>>

(* The catch clause up to the decision: handleApiError(error, retryCount). *)
Catch ==
    /\ pc = "catch"
    /\ \E resp \in Answers(TriesRefresh(authManager, caught, retryCount)) :
         LET h == handleApiError(authManager, kv, now, today, caught, retryCount, resp)
         IN  /\ authManager' = h.mgr
             /\ kv' = h.kv
             /\ issued' = Issue(h.tokenCall, resp)
             /\ marked' = marked \cup h.markedFailed
             /\ handled' = Append(handled, [error |-> caught, attempt |-> retryCount,
                                            account |-> authManager.selectedAccount])
             /\ op' = OpOfHandle(h, caught, retryCount, resp)
             /\ tokenCalls' = TokenCallsAfter(h.tokenCall, "handleApiError")
             /\ IF ~h.shouldRetry
                THEN pc' = "done" /\ outcome' = Failure(caught) /\ retryCount' = retryCount
                ELSE IF h.newAccount
                THEN pc' = "switch" /\ outcome' = outcome /\ retryCount' = retryCount
                ELSE NextAttempt
    /\ UNCHANGED <<health, workers, selections, http, relay, now, today, stream, caught, calls>>

(* The catch clause after the decision: switchAccount(). *)
Switch ==
    /\ pc = "switch"
    /\ \E c \in Choices(ClearSelection(authManager)) :
         \E resp \in Answers(AsksToRefresh(c)) :
            LET sw == switchAccount(authManager, c, now, today, resp)
            IN  /\ authManager' = sw.result.mgr
                /\ kv' = sw.result.kv
                /\ issued' = Issue(sw.result.tokenCall, resp)
                /\ op' = OpOfAuth("switchAccount", sw.result, resp)
                /\ selections' = selections + Picks(c)
                /\ tokenCalls' = TokenCallsAfter(sw.result.tokenCall, "switchAccount")
                /\ IF ~sw.switched
                   THEN /\ pc' = "done"
                        /\ outcome' = Failure(ErrNoAlternative)
                        /\ retryCount' = retryCount
                   ELSE NextAttempt
    /\ UNCHANGED <<health, workers, http, relay, now, today, stream, caught, calls, handled, marked>>

(* authManager.getFailedAccounts() of GET /admin/health, between requests. *)
AdminGetFailedAccounts ==
    /\ pc \in {"idle", "done"}
    /\ LET g == getFailedAccounts(kv, today)
       IN  /\ kv' = g.kv
           /\ op' = [OpNone EXCEPT !.name = "getFailedAccounts", !.returned = g.failed,
                                   !.stale = Stale,
                                   !.again = (op.name = "getFailedAccounts")]
    /\ UNCHANGED <<health, tokenCalls, workers, selections, http, relay, now, today, issued, authManager, pc, stream, retryCount, caught,
                   outcome, calls, handled, marked>>

Next ==
    \/ NewRequest
    \/ Authenticate
    \/ ProviderCall
    \/ Catch
    \/ Switch
    \/ AdminGetFailedAccounts
    \/ Tick
    \/ Midnight

Spec == Init /\ [][Next]_vars

(* The request in flight moves on: each step of chatCompletions is the
   continuation of an await (initializeAuth, the fetch, handleApiError,
   switchAccount), which the runtime resumes once the awaited operation
   settles, and each leaves the position it was at. *)
Positions == {"idle", "auth", "call", "catch", "switch", "done"}

Resume ==
    /\ pc \in {"auth", "call", "catch", "switch"}
    /\ pc' \in Positions \ {pc}

SpecLive == Init /\ [][Next]_vars /\ WF_pc(Resume)

(* A resource_url without scheme and suffix. *)
CustomUrl == Url("portal.qwen.ai", FALSE, "")

(* The executor over accounts whose tokens run out while a request is being
   served: expired, with and without a custom endpoint, or with three
   minutes left, with and without an access token. *)
ShortLivedCreds ==
    {Cred(1, 1, -1), [Cred(1, 1, -1) EXCEPT !.resource_url = CustomUrl],
     Cred(1, 1, 3), Cred(0, 1, 3)}

InitShortLived ==
    /\ kv \in {[ACCOUNT |-> a, FAILED_ACCOUNTS |-> <<>>, LAST_FAILED_RESET_DATE |-> 2] :
                 a \in [AccountIds -> ShortLivedCreds]}
    /\ now = 0
    /\ today = 2
    /\ issued = 1
    /\ authManager = NewManager
    /\ pc = "idle"
    /\ stream = FALSE
    /\ retryCount = 0
    /\ caught = NoError
    /\ outcome = NoOutcome
    /\ calls = <<>>
    /\ handled = <<>>
    /\ marked = {}
    /\ op = OpNone
    /\ http = NoKeysConfigured
    /\ relay = RelayIdle
    /\ selections = 0
    /\ workers = NoWorkers
    /\ tokenCalls = <<>>
    /\ health = NoHealth

SpecShortLived == InitShortLived /\ [][Next]_vars

-----------------------------------------------------------------------------
(* The manager on its own: one caller at a time invokes the public methods of
   MultiAccountAuthManager in any order, with any error and attempt number. *)

(* The stores the manager starts from: each account unreadable, expired or
   fresh. *)
MgrCreds == {NoCred, Cred(1, 1, -1), Cred(1, 1, 40)}

InitMgr ==
    /\ Init
    /\ \A id \in AccountIds : kv.ACCOUNT[id] \in MgrCreds

MgrNew ==
    /\ authManager' = NewManager
    /\ op' = [OpNone EXCEPT !.name = "new"]
    /\ UNCHANGED <<health, tokenCalls, workers, selections, http, relay, kv, now, today, issued, pc, stream, retryCount, caught, outcome,
                   calls, handled, marked>>

MgrInitializeAuth ==
    /\ \E c \in Choices(authManager) :
         \E resp \in Answers(AsksToRefresh(c)) :
            LET r == initializeAuth(authManager, c, now, today, resp)
            IN  /\ authManager' = r.mgr
                /\ kv' = r.kv
                /\ issued' = Issue(r.tokenCall, resp)
                /\ op' = OpOfAuth("initializeAuth", r, resp)
    /\ UNCHANGED <<health, tokenCalls, workers, selections, http, relay, now, today, pc, stream, retryCount, caught, outcome, calls, handled,
                   marked>>

MgrHandleApiError ==
    /\ \E error \in HandleErrors, rc \in 0..maxRetries :
         \E resp \in Answers(TriesRefresh(authManager, error, rc)) :
            LET h == handleApiError(authManager, kv, now, today, error, rc, resp)
            IN  /\ authManager' = h.mgr
                /\ kv' = h.kv
                /\ issued' = Issue(h.tokenCall, resp)
                /\ marked' = marked \cup h.markedFailed
                /\ op' = OpOfHandle(h, error, rc, resp)
    /\ UNCHANGED <<health, tokenCalls, workers, selections, http, relay, now, today, pc, stream, retryCount, caught, outcome, calls, handled>>

MgrSwitchAccount ==
    /\ \E c \in Choices(ClearSelection(authManager)) :
         \E resp \in Answers(AsksToRefresh(c)) :
            LET sw == switchAccount(authManager, c, now, today, resp)
            IN  /\ authManager' = sw.result.mgr
                /\ kv' = sw.result.kv
                /\ issued' = Issue(sw.result.tokenCall, resp)
                /\ op' = [OpOfAuth("switchAccount", sw.result, resp) EXCEPT
                              !.returned = IF sw.switched THEN <<1>> ELSE <<>>]
    /\ UNCHANGED <<health, tokenCalls, workers, selections, http, relay, now, today, pc, stream, retryCount, caught, outcome, calls, handled,
                   marked>>

MgrForceSelectAccount ==
    /\ \E accountId \in AccountIds :
         /\ authManager' = forceSelectAccount(authManager, accountId)
         /\ op' = [OpNone EXCEPT !.name = "forceSelectAccount", !.account = accountId]
    /\ UNCHANGED <<health, tokenCalls, workers, selections, http, relay, kv, now, today, issued, pc, stream, retryCount, caught, outcome,
                   calls, handled, marked>>

MgrClearForcedAccount ==
    /\ authManager' = clearForcedAccount(authManager)
    /\ op' = [OpNone EXCEPT !.name = "clearForcedAccount"]
    /\ UNCHANGED <<health, tokenCalls, workers, selections, http, relay, kv, now, today, issued, pc, stream, retryCount, caught, outcome,
                   calls, handled, marked>>

NextMgr ==
    \/ MgrNew
    \/ MgrInitializeAuth
    \/ MgrHandleApiError
    \/ MgrSwitchAccount
    \/ MgrForceSelectAccount
    \/ MgrClearForcedAccount
    \/ AdminGetFailedAccounts
    \/ Tick
    \/ Midnight

SpecMgr == InitMgr /\ [][NextMgr]_vars

-----------------------------------------------------------------------------
(* RetryCoordinator on its own: handleApiError called with any error message
   and attempt number on a manager that has made its selection. *)

(* An error message is a sequence of tokens: words, and numbers written in
   decimal. *)
RECURSIVE DecimalDigits(_)
DecimalDigits(n) == IF n < 10 THEN <<n>> ELSE Append(DecimalDigits(n \div 10), n % 10)

Word(text) == [isNumber |-> FALSE, number |-> 0, word |-> text]

Number(n) == [isNumber |-> TRUE, number |-> n, word |-> ""]

(* `Qwen API error: ${response.status} - ${errorText}` *)
QwenApiError(status, errorText) ==
    <<Word("Qwen API error:"), Number(status), Word("-")>> \o errorText

(* errorMessage.match(/(\d{3})/) and parseInt: the first three digits of the
   first number that has three digits or more; 0 (null) without one. *)
FirstThreeDigits(message) ==
    LET Long(token) == token.isNumber /\ Len(DecimalDigits(token.number)) >= 3
        long == SelectSeq(message, Long)
        d == DecimalDigits(long[1].number)
    IN  IF long = <<>> THEN 0 ELSE 100 * d[1] + 10 * d[2] + d[3]

(* errorMessage.includes('<code>'): some number of the message has the digits
   of the code in a row. *)
IncludesCode(message, code) ==
    \E i \in DOMAIN message :
        /\ message[i].isNumber
        /\ LET d == DecimalDigits(message[i].number)
           IN  \E k \in 1..(Len(d) - 2) : SubSeq(d, k, k + 2) = DecimalDigits(code)

(* errorMessage.includes('<text>') *)
IncludesText(message, text) == \E i \in DOMAIN message : message[i] = Word(text)

(* The Error with this message, by what handleApiError reads of it. *)
ErrorOfMessage(message) ==
    Err("message", FirstThreeDigits(message),
        UNION {StatusMark(code) : code \in {c \in {401, 429, 500, 502, 504} :
                                                IncludesCode(message, c)}}
        \cup {text \in {"unauthorized", "quota", "rate limit"} : IncludesText(message, text)})

ErrorMessages ==
    {QwenApiError(st, <<>>) : st \in {400, 401, 429, 500, 502, 503, 504}}
    \cup {QwenApiError(500, <<Word("unauthorized")>>),
          QwenApiError(429, <<Word("unauthorized")>>),
          QwenApiError(400, <<Word("quota")>>),
          QwenApiError(502, <<Word("rate limit")>>),
          QwenApiError(403, <<Word("request"), Number(14012)>>),
          QwenApiError(400, <<Word("Unauthorized")>>),
          <<Word("timeout after"), Number(1500), Word("ms")>>,
          <<Word("Failed to obtain access token")>>}

(* Stored credentials: expired, short lived without a refresh token, fresh. *)
HandleCreds == {Cred(1, 1, -1), Cred(1, 0, 8), Cred(1, 1, 40)}

InitHandle ==
    /\ Init
    /\ kv.LAST_FAILED_RESET_DATE = today
    /\ \A id \in AccountIds : kv.ACCOUNT[id] \in HandleCreds

HandleAnyError ==
    /\ \E message \in ErrorMessages, rc \in 0..maxRetries :
         \E resp \in Answers(TriesRefresh(authManager, ErrorOfMessage(message), rc)) :
            LET error == ErrorOfMessage(message)
                h == handleApiError(authManager, kv, now, today, error, rc, resp)
            IN  /\ authManager' = h.mgr
                /\ kv' = h.kv
                /\ issued' = Issue(h.tokenCall, resp)
                /\ marked' = marked \cup h.markedFailed
                /\ op' = [OpOfHandle(h, error, rc, resp) EXCEPT !.error = error,
                                                               !.message = message]
    /\ UNCHANGED <<health, tokenCalls, workers, selections, http, relay, now, today, pc, stream, retryCount, caught,
                   outcome, calls, handled>>

NextHandle ==
    \/ MgrInitializeAuth
    \/ HandleAnyError
    \/ Midnight

SpecHandle == InitHandle /\ [][NextHandle]_vars

-----------------------------------------------------------------------------
(* AccountSelector on its own: selections from a pool of three accounts whose
   credentials fall in every row of the probability table. *)

PoolAccounts == 3

(* Stored credentials: unreadable, expired, and with 8, 15, 25 and 40 minutes
   left at the start. *)
SelectCreds == {NoCred} \cup {Cred(1, 1, exp) : exp \in {-1, 8, 15, 25, 40}}

InitSelect ==
    /\ kv \in {[ACCOUNT |-> a, FAILED_ACCOUNTS |-> f, LAST_FAILED_RESET_DATE |-> 2] :
                 a \in [1..PoolAccounts -> SelectCreds],
                 f \in {<<>>} \cup {<<id>> : id \in 1..PoolAccounts}}
    /\ now = 0
    /\ today = 2
    /\ issued = 1
    /\ authManager = NewManager
    /\ pc = "idle"
    /\ stream = FALSE
    /\ retryCount = 0
    /\ caught = NoError
    /\ outcome = NoOutcome
    /\ calls = <<>>
    /\ handled = <<>>
    /\ marked = {}
    /\ op = OpNone
    /\ http = NoKeysConfigured
    /\ relay = RelayIdle
    /\ selections = 0
    /\ workers = NoWorkers
    /\ tokenCalls = <<>>
    /\ health = NoHealth

NextSelect ==
    \/ MgrNew
    \/ MgrInitializeAuth
    \/ Tick

SpecSelect == InitSelect /\ [][NextSelect]_vars

-----------------------------------------------------------------------------
(* Concurrent requests on the shared store: markAccountAsFailed calls of
   several manager instances, interleaved at their awaits. The store has no
   lock and no compare-and-set; a get returns what the last put wrote. *)

NumWorkers == 2

WorkerIds == 1..NumWorkers

(* A call of markAccountAsFailed(accountId) that has not made its first read. *)
NewWorker(accountId) ==
    [pc |-> "readDate", accountId |-> accountId, lastResetDate |-> NoDate,
     currentUtcDate |-> NoDate, failed |-> <<>>, getThrew |-> FALSE]

(* Variant: a put that keeps the entries the key already holds. *)
MergingPut(s, value) ==
    LET Missing(id) == id \notin Range(s.FAILED_ACCOUNTS)
    IN  [s EXCEPT !.FAILED_ACCOUNTS = s.FAILED_ACCOUNTS \o SelectSeq(value, Missing)]

(* this.env.QWEN_TOKEN_CACHE.put('FAILED_ACCOUNTS', ...) *)
putFailedAccounts(s, value) == [s EXCEPT !.FAILED_ACCOUNTS = value]

(* One await of markAccountAsFailed, through getFailedAccounts and
   checkAndResetFailedAccounts: the worker as it continues, the store as it
   leaves it, and the value it put under FAILED_ACCOUNTS, if it put one.
   getOk tells whether the store answers the get of this step; a get that
   throws is caught, by line 68 in the reset and by line 47 in
   getFailedAccounts, which then returns []. *)
markStep(worker, s, day, getOk) ==
    CASE worker.pc = "readDate" ->
           (* line 58: get LAST_FAILED_RESET_DATE; line 59: today's date *)
           IF getOk
           THEN [worker |-> [worker EXCEPT !.lastResetDate = s.LAST_FAILED_RESET_DATE,
                                           !.currentUtcDate = day,
                                           !.pc = IF s.LAST_FAILED_RESET_DATE # day
                                                  THEN "clear" ELSE "readFailed"],
                 kv |-> s, put |-> <<>>]
           ELSE [worker |-> [worker EXCEPT !.pc = "readFailed"], kv |-> s, put |-> <<>>]
      [] worker.pc = "clear" ->
           (* line 64: put FAILED_ACCOUNTS '' *)
           [worker |-> [worker EXCEPT !.pc = "date"],
            kv |-> putFailedAccounts(s, <<>>), put |-> << <<>> >>]
      [] worker.pc = "date" ->
           (* line 65: put LAST_FAILED_RESET_DATE *)
           [worker |-> [worker EXCEPT !.pc = "readFailed"],
            kv |-> [s EXCEPT !.LAST_FAILED_RESET_DATE = worker.currentUtcDate],
            put |-> <<>>]
      [] worker.pc = "readFailed" ->
           (* lines 45-46 and 79: get FAILED_ACCOUNTS; includes(accountId) *)
           LET failed == IF getOk THEN s.FAILED_ACCOUNTS ELSE <<>>
           IN  [worker |-> [worker EXCEPT !.failed = failed,
                                          !.getThrew = ~getOk,
                                          !.pc = IF worker.accountId \in Range(failed)
                                                 THEN "done" ELSE "write"],
                kv |-> s, put |-> <<>>]
      [] worker.pc = "write" ->
           (* lines 80-81: push and put FAILED_ACCOUNTS *)
           [worker |-> [worker EXCEPT !.pc = "done"],
            kv |-> putFailedAccounts(s, Append(worker.failed, worker.accountId)),
            put |-> << Append(worker.failed, worker.accountId) >>]

(* The stores of the race: the failed list of the day or of the day before,
   empty or with one entry. *)
InitRace ==
    /\ kv \in {[ACCOUNT |-> [id \in AccountIds |-> Cred(1, 1, 40)],
                FAILED_ACCOUNTS |-> f, LAST_FAILED_RESET_DATE |-> d] :
                 f \in {<<>>} \cup {<<id>> : id \in AccountIds}, d \in {1, 2}}
    /\ now = 0
    /\ today = 2
    /\ issued = 1
    /\ authManager = NewManager
    /\ pc = "idle"
    /\ stream = FALSE
    /\ retryCount = 0
    /\ caught = NoError
    /\ outcome = NoOutcome
    /\ calls = <<>>
    /\ handled = <<>>
    /\ marked = {}
    /\ op = OpNone
    /\ http = NoKeysConfigured
    /\ relay = RelayIdle
    /\ selections = 0
    /\ workers = NoWorkers
    /\ tokenCalls = <<>>
    /\ health = NoHealth

(* Requests reach markAccountAsFailed, each for the account it had selected. *)
RaceBegin ==
    /\ workers.w = <<>>
    /\ \E accounts \in [WorkerIds -> AccountIds] :
         workers' = [w |-> [i \in WorkerIds |-> NewWorker(accounts[i])], puts |-> <<>>]
    /\ UNCHANGED <<kv, now, today, issued, authManager, pc, stream, retryCount, caught,
                   outcome, calls, handled, marked, op, http, relay, selections,
                   tokenCalls, health>>

(* One of the calls proceeds to its next await. *)
RaceStep ==
    /\ \E i \in DOMAIN workers.w :
         /\ workers.w[i].pc # "done"
         /\ \E getOk \in BOOLEAN :
            LET r == markStep(workers.w[i], kv, today, getOk)
            IN  /\ kv' = r.kv
                /\ workers' = [w |-> [workers.w EXCEPT ![i] = r.worker],
                               puts |-> workers.puts \o
                                        [k \in DOMAIN r.put |-> [by |-> i, value |-> r.put[k]]]]
    /\ UNCHANGED <<now, today, issued, authManager, pc, stream, retryCount, caught,
                   outcome, calls, handled, marked, op, http, relay, selections,
                   tokenCalls, health>>

NextRace ==
    \/ RaceBegin
    \/ RaceStep

SpecRace == InitRace /\ [][NextRace]_vars

-----------------------------------------------------------------------------
(* The Worker behind its API key middleware: requests to /v1/chat/completions
   with any Authorization header, under every key configuration. *)

(* OPENAI_API_KEYS and the legacy OPENAI_API_KEY: unset, or comma-separated
   entries, some written with blanks around them. *)
KeyConfigurations ==
    {[NoKeysConfigured EXCEPT !.OPENAI_API_KEYS = ks, !.OPENAI_API_KEY = k] :
        ks \in {NoKeys, <<Key(1, FALSE)>>, <<Key(1, FALSE), Key(2, TRUE)>>},
        k \in {NoKeys, <<Key(3, FALSE)>>}}

HttpCreds == {Cred(1, 1, -1), Cred(1, 1, 40), Cred(0, 1, 40)}

InitHttp ==
    /\ kv \in {st \in InitStores :
                 /\ st.LAST_FAILED_RESET_DATE = 2
                 /\ st.FAILED_ACCOUNTS = <<>>
                 /\ \A id \in AccountIds : st.ACCOUNT[id] \in HttpCreds}
    /\ now = 0
    /\ today = 2
    /\ issued = 1
    /\ authManager = NewManager
    /\ pc = "idle"
    /\ stream = FALSE
    /\ retryCount = 0
    /\ caught = NoError
    /\ outcome = NoOutcome
    /\ calls = <<>>
    /\ handled = <<>>
    /\ marked = {}
    /\ op = OpNone
    /\ http \in KeyConfigurations
    /\ relay = RelayIdle
    /\ selections = 0
    /\ workers = NoWorkers
    /\ tokenCalls = <<>>
    /\ health = NoHealth

(* The middleware answers 401: 'Missing or invalid Authorization header' or
   'Invalid API key'. The route handler does not run. *)
Reject401 ==
    /\ pc \in {"idle", "done"}
    /\ \E authHeader \in HeadersRead :
         /\ ~Authorized(http, authHeader)
         /\ http' = [http EXCEPT !.authHeader = authHeader, !.status = 401]
    /\ op' = [OpNone EXCEPT !.name = "unauthorized"]
    /\ UNCHANGED <<health, tokenCalls, workers, selections, relay, kv, now, today, issued, authManager, pc, stream,
                   retryCount, caught, outcome, calls, handled, marked>>

NextHttp ==
    \/ Reject401
    \/ NewRequest
    \/ Authenticate
    \/ ProviderCall
    \/ Catch
    \/ Switch

SpecHttp == InitHttp /\ [][NextHttp]_vars

-----------------------------------------------------------------------------
(* StreamRelay: QwenAPIClient.processSSEStream. Text is a sequence of
   one-character strings. A JSON object is written {d} with d a digit, which
   stands for the chunk's id. *)

DataPrefix == <<"d", "a", "t", "a", ":", " ">>

DoneText == <<"[", "D", "O", "N", "E", "]">>

Digits == {"1", "2", "3"}

Blanks == {" ", "\r", "\t", "\n"}

RECURSIVE SplitFrom(_, _, _, _)
SplitFrom(text, i, current, segments) ==
    IF i > Len(text) THEN Append(segments, current)
    ELSE IF text[i] = "\n" THEN SplitFrom(text, i + 1, <<>>, Append(segments, current))
    ELSE SplitFrom(text, i + 1, Append(current, text[i]), segments)

(* buffer.split('\n') *)
split(text) == SplitFrom(text, 1, <<>>, <<>>)

RECURSIVE trimStart(_)
trimStart(text) ==
    IF text # <<>> /\ Head(text) \in Blanks THEN trimStart(Tail(text)) ELSE text

RECURSIVE trimEnd(_)
trimEnd(text) ==
    IF text # <<>> /\ text[Len(text)] \in Blanks
    THEN trimEnd(SubSeq(text, 1, Len(text) - 1))
    ELSE text

(* line.trim() *)
trim(text) == trimEnd(trimStart(text))

startsWith(text, prefix) ==
    Len(text) >= Len(prefix) /\ SubSeq(text, 1, Len(prefix)) = prefix

(* line.substring(6) *)
substring(text, start) == SubSeq(text, start + 1, Len(text))

(* JSON.parse(data) followed by the reads of chunk.id etc.: blanks around the
   value are allowed; an object parses to a chunk with its id; a bare number
   parses and has no id; anything else throws. *)
JsonParse(data) ==
    LET t == trim(data)
    IN  IF Len(t) = 3 /\ t[1] = "{" /\ t[3] = "}" /\ t[2] \in Digits
        THEN [ok |-> TRUE, id |-> t[2]]
        ELSE IF Len(t) = 1 /\ t[1] \in Digits
        THEN [ok |-> TRUE, id |-> ""]
        ELSE [ok |-> FALSE, id |-> ""]

(* What the relay writes to the output. *)
DoneEvent == [type |-> "done", id |-> ""]

ChunkEvent(id) == [type |-> "chunk", id |-> id]

ErrorEvent == [type |-> "error", id |-> ""]

(* Variant: nothing of an incomplete line is kept for the next read. *)
DropsIncompleteLine(segments) == <<>>

(* buffer = lines.pop() || '' *)
KeepIncompleteLine(segments) == segments[Len(segments)]

(* A write on the output: it is appended, or it rejects because the client
   has cancelled the readable side. *)
CanWrite(r) == ~r.cancelled

(* Lines 367-369 and the start of the for loop, for the bytes of one read. *)
TakeChunk(r, value, rest) ==
    LET segments == split(r.buffer \o value)
        lines == SubSeq(segments, 1, Len(segments) - 1)
        incomplete == KeepIncompleteLine(segments)
    IN  [r EXCEPT !.upstream = rest,
                  !.buffer = incomplete,
                  !.lines = lines,
                  !.split = r.split \/ incomplete # <<>>,
                  !.pc = IF lines = <<>> THEN "read" ELSE "lines"]

(* Lines 376-378 and 404-405: the terminal sentinel and the close. A write
   that rejects is thrown to the catch clause of line 406. *)
WriteDoneAndClose(r, how) ==
    IF CanWrite(r)
    THEN [r EXCEPT !.output = Append(r.output, DoneEvent), !.closed = TRUE,
                   !.pc = "closed", !.ended = how]
    ELSE [r EXCEPT !.pc = "catch", !.ended = how]

(* Variant: a payload that does not parse is thrown to the outer catch. *)
StopsAtBadPayload(r) ==
    LET line == Head(r.lines)
        rest == Tail(r.lines)
        data == substring(line, 6)
        chunk == JsonParse(data)
        next == [r EXCEPT !.lines = rest, !.pc = IF rest = <<>> THEN "read" ELSE "lines"]
    IN  IF trim(line) = <<>> THEN next
        ELSE IF ~startsWith(line, DataPrefix) THEN next
        ELSE IF data = DoneText THEN WriteDoneAndClose([r EXCEPT !.lines = <<>>], "done")
        ELSE IF ~chunk.ok THEN [r EXCEPT !.lines = <<>>, !.pc = "catch"]
        ELSE IF CanWrite(r)
        THEN [next EXCEPT !.output = Append(r.output, ChunkEvent(chunk.id))]
        ELSE next

(* Lines 371-400 for the first line in hand. The write of a chunk is inside
   the try block of line 381: when it rejects, the catch clause of line 395
   takes it for a parse error and the loop goes on. *)
ProcessLine(r) ==
    LET line == Head(r.lines)
        rest == Tail(r.lines)
        data == substring(line, 6)
        chunk == JsonParse(data)
        next == [r EXCEPT !.lines = rest, !.pc = IF rest = <<>> THEN "read" ELSE "lines"]
    IN  IF trim(line) = <<>> THEN next
        ELSE IF ~startsWith(line, DataPrefix) THEN next
        ELSE IF data = DoneText THEN WriteDoneAndClose([r EXCEPT !.lines = <<>>], "done")
        ELSE IF chunk.ok /\ CanWrite(r)
        THEN [next EXCEPT !.output = Append(r.output, ChunkEvent(chunk.id))]
        ELSE next

(* Variant of the catch clause: the error chunk without the sentinel. *)
ErrorChunkOnly(r) ==
    IF CanWrite(r)
    THEN [r EXCEPT !.output = Append(r.output, ErrorEvent), !.closed = TRUE, !.pc = "closed"]
    ELSE [r EXCEPT !.pc = "rejected"]

(* Lines 406-432: the error chunk and the sentinel, write failures swallowed,
   then writer.close(), which rejects when the output has been cancelled. *)
CatchClause(r) ==
    IF CanWrite(r)
    THEN [r EXCEPT !.output = r.output \o <<ErrorEvent, DoneEvent>>, !.closed = TRUE,
                   !.pc = "closed"]
    ELSE [r EXCEPT !.pc = "rejected"]

(* Upstream texts. *)
DataLine(payload) == DataPrefix \o payload \o <<"\n">>

TwoChunksThenDone ==
    DataLine(<<"{", "1", "}">>) \o <<"\n">> \o DataLine(<<"{", "2", "}">>) \o <<"\n">>
    \o DataLine(DoneText) \o <<"\n">>

EndsMidLine == DataLine(<<"{", "1", "}">>) \o DataPrefix \o <<"{", "2">>

KeepAlive == <<":", "\n">>

(* A payload that is cut short, a payload that is no JSON, and a last payload
   line that the upstream does not terminate. *)
BadPayloadsAndOpenEnd ==
    DataLine(<<"{", "1">>) \o DataLine(<<"{", "2", "}">>) \o DataLine(<<"x">>)
    \o DataLine(<<"{", "3", "}">>) \o DataPrefix \o <<"{", "1", "}">>

UpstreamTexts ==
    {TwoChunksThenDone,
     EndsMidLine,
     BadPayloadsAndOpenEnd,
     <<>>,
     DataLine(DoneText) \o DataLine(<<"{", "3", "}">>),
     DataLine(<<"x">>) \o KeepAlive \o DataLine(<<"2">>),
     DataPrefix \o <<"{", "1", "}", "\r", "\n">> \o DataPrefix \o DoneText \o <<"\r", "\n">>,
     DataLine(<<"{", "1", "}">>) \o DataPrefix \o DoneText}

(* How the upstream goes on after its text: it closes, its read fails, or it
   keeps sending keep-alive comment lines. *)
UpstreamEndings == {"close", "error", "endless"}

RelayStart(text, ending) ==
    [pc |-> "read", input |-> text, upstream |-> text, ending |-> ending,
     buffer |-> <<>>, lines |-> <<>>, output |-> <<>>, closed |-> FALSE,
     cancelled |-> FALSE, ended |-> "", split |-> FALSE]

(* The state in which handleStreamingChatCompletion calls processSSEStream:
   a streaming request whose provider call succeeded. *)
InitRelay ==
    /\ kv = [ACCOUNT |-> [id \in AccountIds |-> Cred(1, 1, 40)],
             FAILED_ACCOUNTS |-> <<>>, LAST_FAILED_RESET_DATE |-> 2]
    /\ now = 0
    /\ today = 2
    /\ issued = 1
    /\ authManager = [NewManager EXCEPT !.selectedAccount = 1,
                                        !.selectedCredentials = Cred(1, 1, 40)]
    /\ pc = "done"
    /\ stream = TRUE
    /\ retryCount = 0
    /\ caught = NoError
    /\ outcome = [kind |-> "stream", error |-> NoError]
    /\ calls = <<[account |-> 1, access_token |-> 1, endpoint |-> QWEN_API_BASE_URL,
                  status |-> 200, error |-> NoError,
                  attempt |-> 0]>>
    /\ handled = <<>>
    /\ marked = {}
    /\ op = [OpNone EXCEPT !.name = "providerCall", !.account = 1]
    /\ http = NoKeysConfigured
    /\ selections = 1
    /\ workers = NoWorkers
    /\ tokenCalls = <<>>
    /\ health = NoHealth
    /\ relay \in {RelayStart(text, ending) : text \in UpstreamTexts,
                                             ending \in UpstreamEndings}

RelayFrame ==
    UNCHANGED <<health, tokenCalls, workers, kv, now, today, issued, authManager, pc, stream, retryCount, caught,
                outcome, calls, handled, marked, op, http, selections>>

(* await reader.read(): some bytes, the end of the stream, or a failure. *)
RelayRead ==
    /\ relay.pc = "read"
    /\ IF relay.upstream # <<>>
       THEN \E n \in 1..Len(relay.upstream) :
               relay' = TakeChunk(relay, SubSeq(relay.upstream, 1, n),
                                  SubSeq(relay.upstream, n + 1, Len(relay.upstream)))
       ELSE IF relay.ending = "endless"
       THEN relay' = TakeChunk(relay, KeepAlive, <<>>)
       ELSE IF relay.ending = "close"
       THEN relay' = [relay EXCEPT !.pc = "finish"]
       ELSE relay' = [relay EXCEPT !.pc = "catch", !.ended = "readError"]
    /\ RelayFrame

RelayLine ==
    /\ relay.pc = "lines"
    /\ relay' = ProcessLine(relay)
    /\ RelayFrame

(* done: the loop is left; 'Stream finished'. *)
RelayFinish ==
    /\ relay.pc = "finish"
    /\ relay' = WriteDoneAndClose(relay, "eof")
    /\ RelayFrame

RelayCatch ==
    /\ relay.pc = "catch"
    /\ relay' = CatchClause(relay)
    /\ RelayFrame

(* The client cancels the stream it was given. *)
ClientCancel ==
    /\ relay.pc \in {"read", "lines", "finish", "catch"}
    /\ ~relay.cancelled
    /\ relay' = [relay EXCEPT !.cancelled = TRUE]
    /\ RelayFrame

RelayStep == RelayRead \/ RelayLine \/ RelayFinish \/ RelayCatch

NextRelay ==
    \/ RelayRead
    \/ RelayLine
    \/ RelayFinish
    \/ RelayCatch
    \/ ClientCancel

(* The relay's continuation runs whenever the promise it awaits settles: the
   upstream answers every read and the output takes every write. *)
SpecRelay == InitRelay /\ [][NextRelay]_vars /\ WF_vars(RelayStep)

-----------------------------------------------------------------------------
(* Properties *)

(* The failed set of the day: the stored list counts only under today's date. *)
FailedOn(s, day) ==
    IF s.LAST_FAILED_RESET_DATE = day THEN Range(s.FAILED_ACCOUNTS) ELSE {}

(* The last operation was a selection other than a forced one. *)
NormalSelection(o) ==
    o.name \in {"initializeAuth", "switchAccount"} /\ o.kind = "normal"

(* The accounts a request can be served from: credential stored, and not in
   the failed set unless this very request put a call on it. *)
Selectable ==
    {id \in AccountIds :
        /\ kv.ACCOUNT[id].loadable
        /\ \/ id \notin FailedOn(kv, today)
           \/ \E i \in DOMAIN calls : calls[i].account = id}

FirstCallFailed == Len(calls) >= 1 /\ calls[1].status # 200

(* C1: a logical request issues at most two provider chat-completion calls,
   the initial attempt and at most one retry; no call belongs to a third
   attempt. *)
C1_AtMostTwoProviderCalls ==
    /\ Len(calls) <= maxRetries + 1
    /\ \A i \in DOMAIN calls : calls[i].attempt <= maxRetries

C1_Witness ==
    /\ pc = "done"
    /\ Len(calls) = 1
    /\ calls[1].status = 500
    /\ outcome.kind = "error"

(* C2: when every provider call returns 429 and more than one account is
   available, the finished request has made exactly two calls, the second on
   another account than the first, and has failed with the 429 error. *)
C2_OneRetryOnOtherAccountThen429 ==
    (/\ pc = "done"
     /\ calls # <<>>
     /\ \A i \in DOMAIN calls : calls[i].status = 429
     /\ Cardinality(Selectable) > 1)
    => /\ Len(calls) = 2
       /\ calls[2].account # calls[1].account
       /\ outcome = Failure(ProviderError(429, {}))

(* C3: when the first provider call of a request got a non-2xx response, the
   finished request has invoked handleApiError with that error and attempt
   number 0, streaming or not. *)
C3_FirstFailureHandedToHandleApiError ==
    (pc = "done" /\ FirstCallFailed)
    => \E i \in DOMAIN handled :
          handled[i].error = calls[1].error /\ handled[i].attempt = 0

(* C4: a request that ends in failure after a provider call failed surfaces
   the error of its last failed provider call, unchanged. *)
C4_LastProviderErrorSurfaced ==
    (/\ pc = "done"
     /\ outcome.kind = "error"
     /\ \E i \in DOMAIN calls : calls[i].error # NoError)
    => LET failedCalls == SelectSeq(calls, LAMBDA c : c.error # NoError)
       IN  outcome.error = failedCalls[Len(failedCalls)].error

C4_Witness ==
    /\ pc = "done"
    /\ stream
    /\ outcome.kind = "error"
    /\ Len(calls) = 1
    /\ calls[1].error = ProviderError(429, {})

(* C5: when the first provider call failed with a server error (500) or an
   unclassified error (400) and more than one account is selectable, the
   finished request has retried, on another account than the one that failed. *)
C5_RetryOnDifferentAccount ==
    (/\ pc = "done"
     /\ Len(calls) >= 1
     /\ calls[1].status \in {400, 500}
     /\ Cardinality(Selectable) > 1)
    => /\ Len(calls) >= 2
       /\ calls[2].account # calls[1].account

(* C6: the account a normal selection ends with, the fallback after a failed
   proactive refresh included, is not in the failed set that selection read,
   nor in the failed set of the day as the selection leaves it. *)
C6_SelectedNotInFailedSet ==
    (NormalSelection(op) /\ ~op.threw)
    => /\ op.account # NoAccount
       /\ op.account \notin op.failedRead
       /\ op.account \notin FailedOn(kv, today)

C6_Witness ==
    /\ NormalSelection(op)
    /\ ~op.threw
    /\ op.failedRead # {}

(* C7: if some account outside the failed set has a stored credential that is
   not expired (its expiry_date is not before now), a normal selection does
   not fail, whatever the draw and whatever the token endpoint answers. *)
C7_SelectionSucceedsIfSomeAccountUsable ==
    (/\ NormalSelection(op)
     /\ \E id \in AccountIds \ op.failedRead :
           kv.ACCOUNT[id].loadable /\ ~(kv.ACCOUNT[id].expiry_date < now))
    => ~op.threw

(* C8: a normal selection for which every account is in the failed set, or
   no account outside it has a stored credential, fails with 'No valid
   accounts available', asks the token endpoint nothing and writes no
   credential. *)
C8_NoAccountsAvailable ==
    [][(/\ NormalSelection(op')
        /\ \/ op'.failedRead = AccountIds
           \/ \A id \in AccountIds \ op'.failedRead : ~kv.ACCOUNT[id].loadable)
       => /\ op'.threw
          /\ op'.error = ErrNoValidAccounts
          /\ ~op'.tokenCall
          /\ issued' = issued
          /\ kv'.ACCOUNT = kv.ACCOUNT]_vars

C8_Witness ==
    /\ NormalSelection(op)
    /\ op.threw
    /\ op.error = ErrNoValidAccounts
    /\ op.failedRead # {}
    /\ op.failedRead # AccountIds

(* C9: a read of the failed list (getFailedAccounts, or the read a normal
   selection makes) that finds a non-empty list dated on another day, or not
   dated, leaves the list empty and dated today, and returns the empty set. *)
C9_StaleListClearedOnRead ==
    ((op.name = "getFailedAccounts" \/ NormalSelection(op)) /\ op.stale)
    => /\ kv.FAILED_ACCOUNTS = <<>>
       /\ kv.LAST_FAILED_RESET_DATE = today
       /\ op.returned = <<>>
       /\ op.failedRead = {}

C9_Witness ==
    /\ op.name = "getFailedAccounts"
    /\ op.stale
    /\ kv.LAST_FAILED_RESET_DATE = today

(* C10: with one caller at a time, an account marked failed on a UTC day is
   in the failed set until the day changes, and no normal selection of that
   day ends with it. *)
C10_MarkedStaysFailedForTheDay ==
    /\ marked \subseteq FailedOn(kv, today)
    /\ (NormalSelection(op) /\ ~op.threw) => op.account \notin marked

C10_Witness ==
    /\ marked # {}
    /\ op.name = "switchAccount"
    /\ op.kind = "normal"
    /\ ~op.threw
    /\ op.account \notin marked

(* The keys the Worker is configured with, in either variable. *)
ConfiguredKeys ==
    {Trim(k) : k \in Range(http.OPENAI_API_KEYS) \cup Range(http.OPENAI_API_KEY)}

CarriesConfiguredKey(authHeader) ==
    /\ authHeader # NoHeader
    /\ authHeader.scheme = "Bearer"
    /\ authHeader.key \in ConfiguredKeys

(* C20: with OPENAI_API_KEYS or OPENAI_API_KEY set, a request whose
   Authorization header is not 'Bearer <key>' with a configured key is
   answered 401 and changes nothing: no selection, no store write, no
   provider call; the executor only ever runs a request that carried a key. *)
C20_UnauthenticatedRequestRejected ==
    /\ [](pc \in {"auth", "call", "catch", "switch"}
            => (ConfiguredKeys = {} \/ CarriesConfiguredKey(http.authHeader)))
    /\ [][(/\ op'.name \in {"newRequest", "unauthorized"}
            /\ ConfiguredKeys # {}
            /\ ~CarriesConfiguredKey(http'.authHeader))
           => /\ http'.status = 401
              /\ op'.name = "unauthorized"
              /\ UNCHANGED <<health, tokenCalls, workers, kv, issued, authManager, pc, calls, handled, marked,
                             outcome, relay>>]_vars

C20_Witness ==
    /\ op.name = "unauthorized"
    /\ http.status = 401
    /\ http.authHeader = Header("Bearer", Key(4, FALSE))
    /\ http.OPENAI_API_KEYS # NoKeys
    /\ pc = "done"

(* The account a call asked the token endpoint to refresh, and the refresh
   token it passed: handleApiError refreshes the manager's current account
   with the refresh token it holds, initializeAuth and switchAccount the
   account they chose, with the stored refresh token. *)
RefreshedAccount(o) ==
    IF o.name = "handleApiError" THEN authManager.selectedAccount ELSE o.selected

PassedRefreshToken(o) ==
    IF o.name = "handleApiError"
    THEN authManager.selectedCredentials.refresh_token
    ELSE kv.ACCOUNT[o.selected].refresh_token

(* C15: a successful refresh stores under the account exactly the credential
   it returns: the new access token, expiry_date = now + expires_in, and the
   provider's refresh token if the response has one, otherwise the refresh
   token passed in; no other account's credential changes. *)
C15_RefreshStoresReturnedCredential ==
    [][(op'.tokenCall /\ op'.answer.ok)
       => LET id == RefreshedAccount(op')
              expected ==
                  Cred(op'.answer.access_token,
                       IF op'.answer.refresh_token # 0 THEN op'.answer.refresh_token
                       ELSE PassedRefreshToken(op'),
                       now + op'.answer.expires_in)
          IN  /\ kv'.ACCOUNT[id] = expected
              /\ authManager'.selectedAccount = id
              /\ authManager'.selectedCredentials = expected
              /\ \A other \in AccountIds \ {id} : kv'.ACCOUNT[other] = kv.ACCOUNT[other]]_vars

C15_Witness ==
    /\ op.tokenCall
    /\ op.answer.ok
    /\ op.answer.refresh_token = 0
    /\ authManager.selectedCredentials.refresh_token # 0
    /\ authManager.selectedCredentials.access_token = op.answer.access_token

(* C16: when the token endpoint refuses, refreshAccountToken fails with its
   error and leaves the store as it found it; the call that attempted the
   refresh changes no credential, and changes the failed set only by the
   account handleApiError marks after the refusal. *)
C16_RefusedRefreshWritesNothing ==
    /\ [](\A id \in AccountIds :
            \A resp \in {r \in TokenResponses(issued) : ~r.ok} :
               refreshAccountToken(kv, now, id, kv.ACCOUNT[id].refresh_token, resp)
                 = [ok |-> FALSE, kv |-> kv, credentials |-> NoCred,
                    error |-> ErrRefresh(resp)])
    /\ [][(op'.tokenCall /\ ~op'.answer.ok)
           => /\ kv'.ACCOUNT = kv.ACCOUNT
              /\ issued' = issued
              /\ FailedOn(kv', today) =
                   FailedOn(kv, today)
                   \cup (IF op'.name = "handleApiError"
                         THEN {authManager.selectedAccount} ELSE {})]_vars

C16_Witness ==
    /\ op.name = "initializeAuth"
    /\ op.tokenCall
    /\ ~op.answer.ok
    /\ op.threw
    /\ op.error = ErrProactive(op.answer)

(* C17: no step deletes or creates an account credential: the accounts with
   a stored credential are the same after every operation as before it. *)
C17_NoCredentialDeleted ==
    [][/\ DOMAIN kv'.ACCOUNT = DOMAIN kv.ACCOUNT
       /\ \A id \in AccountIds :
             kv'.ACCOUNT[id].loadable = kv.ACCOUNT[id].loadable]_vars

C17_Witness ==
    /\ marked # {}
    /\ issued > 1
    /\ \A id \in marked : kv.ACCOUNT[id].loadable

(* C19: a second run of the reset logic on the same day, with nothing marked
   in between, leaves the store as the first run left it, dated today, and
   empty if the first run found a list of another day. *)
C19_ResetIdempotent ==
    /\ [](LET once == checkAndResetFailedAccounts(kv, today)
          IN  /\ checkAndResetFailedAccounts(once, today) = once
              /\ once.LAST_FAILED_RESET_DATE = today
              /\ kv.LAST_FAILED_RESET_DATE # today => once.FAILED_ACCOUNTS = <<>>)
    /\ [][(op'.name = "getFailedAccounts" /\ op'.again)
           => /\ kv' = kv
              /\ kv'.LAST_FAILED_RESET_DATE = today
              /\ op'.returned = op.returned
              /\ op.stale => kv'.FAILED_ACCOUNTS = <<>>]_vars

C19_Witness ==
    /\ op.name = "getFailedAccounts"
    /\ op.again
    /\ kv.FAILED_ACCOUNTS = <<>>
    /\ kv.LAST_FAILED_RESET_DATE = today
    /\ today > 2

(* Math.random() over [0, 1), in hundredths. *)
DrawGrid == 0..99

(* Of the draws of the grid, how many make selectBestAccount return id. *)
SelectionCount(id) ==
    Cardinality({random \in DrawGrid :
                    selectBestAccount(kv, now, today, random).accountId = id})

Candidates == {id \in AccountIds : kv.ACCOUNT[id].loadable}

(* The candidates whose minutesLeft equals maxFreshness. *)
Freshest ==
    {id \in Candidates :
        \A other \in Candidates :
            minutesLeft(kv.ACCOUNT[other], now) <= minutesLeft(kv.ACCOUNT[id], now)}

(* C18: with no failures recorded and several candidates, one of them
   fresher than the rest and not expired, the freshest is selected for about
   0.85 of the draws (within 0.15 of it) and the others together for fewer
   draws than the freshest. *)
C18_FreshestSelectedMostOften ==
    (/\ kv.FAILED_ACCOUNTS = <<>>
     /\ Cardinality(Candidates) > 1
     /\ Cardinality(Freshest) = 1
     /\ \A id \in Freshest : minutesLeft(kv.ACCOUNT[id], now) >= 0)
    => \A id \in Freshest :
          /\ SelectionCount(id) >= 70
          /\ SelectionCount(id) <= 100
          /\ Cardinality(DrawGrid) - SelectionCount(id) < SelectionCount(id)

(* The events of one type in what the relay has written. *)
EventsOfType(output, type) == {i \in 1..Len(output) : output[i].type = type}

EndsWithOneSentinel(output) ==
    /\ output # <<>>
    /\ EventsOfType(output, "done") = {Len(output)}

(* The upstream contains a complete line that carries the [DONE] payload. *)
HasDoneLine(text) ==
    LET segments == split(text)
    IN  \E i \in 1..(Len(segments) - 1) : segments[i] = DataPrefix \o DoneText

(* The three kinds of run: [DONE] received, upstream closed, read error. *)
RunEnds(r) == r.ending \in {"close", "error"} \/ HasDoneLine(r.input)

(* C11: in every run of the relay whose upstream sends [DONE], closes or
   fails, and whose client goes on consuming, the output is eventually closed;
   whenever the output is closed, what was written ends with exactly one
   terminal sentinel, and nothing is written after the close. *)
C11_RelayTerminatesWithOneSentinel ==
    /\ [](relay.closed => EndsWithOneSentinel(relay.output))
    /\ [][relay.closed => relay'.output = relay.output]_vars
    /\ (relay.pc # "idle" /\ RunEnds(relay)) ~> (relay.closed \/ relay.cancelled)

C11_Witness ==
    /\ relay.closed
    /\ relay.ended = "readError"
    /\ relay.output = <<ChunkEvent("1"), ErrorEvent, DoneEvent>>

(* C12: when the upstream ends in the middle of a line without [DONE], the
   relay emits exactly one synthetic error chunk followed by the terminal
   sentinel and then closes the output. *)
C12_AbruptCloseEmitsErrorChunk ==
    (relay.pc \in {"closed", "rejected"} /\ ~relay.cancelled /\ relay.ended = "eof"
        /\ relay.buffer # <<>>)
    => /\ relay.closed
       /\ Cardinality(EventsOfType(relay.output, "error")) = 1
       /\ Len(relay.output) >= 2
       /\ relay.output[Len(relay.output) - 1] = ErrorEvent
       /\ relay.output[Len(relay.output)] = DoneEvent

TwoChunksAndSentinel == <<ChunkEvent("1"), ChunkEvent("2"), DoneEvent>>

(* C13: for the upstream of two data lines with JSON followed by
   data: [DONE], however the bytes are split into reads, the relay emits the
   two normalized chunks in the original order followed by one terminal
   sentinel: what is written is always a prefix of that, and all of it when
   the relay stops. *)
C13_TwoChunksInOrderForEverySplit ==
    (relay.pc # "idle" /\ relay.input = TwoChunksThenDone /\ ~relay.cancelled)
    => /\ relay.pc \in {"read", "lines", "closed"}
       /\ Len(relay.output) <= 3
       /\ relay.output = SubSeq(TwoChunksAndSentinel, 1, Len(relay.output))
       /\ relay.pc = "closed" => relay.output = TwoChunksAndSentinel

C13_Witness ==
    /\ relay.input = TwoChunksThenDone
    /\ relay.pc = "closed"
    /\ relay.split
    /\ relay.output = TwoChunksAndSentinel

(* C14: when the client cancels, the relay stops: after the cancellation
   there is no unbounded series of further upstream reads. *)
C14_CancelStopsRelay ==
    (relay.pc # "idle" /\ relay.cancelled) ~> (relay.pc \in {"closed", "rejected"})

(* C21: within one logical request at most two account selections are
   performed, the initial pick and one failover pick, whatever the remaining
   lifetime of the selected credentials. *)
C21_AtMostTwoSelections == selections <= 2

-----------------------------------------------------------------------------
(* handleApiError, by what the error message holds *)

(* The message carries the status code, or one of the codes or texts in it. *)
Matches(message, codes, texts) ==
    \/ FirstThreeDigits(message) \in codes
    \/ \E code \in codes : IncludesCode(message, code)
    \/ \E text \in texts : IncludesText(message, text)

MatchesUnauthorized(message) == Matches(message, {401}, {"unauthorized"})

MatchesQuota(message) == Matches(message, {429}, {"quota", "rate limit"})

MatchesServerError(message) == Matches(message, {500, 502, 504}, {})

(* The last operation was handleApiError on a manager with a selected account. *)
Handled(o) == o.name = "handleApiError" /\ o.kind # "noAccount"

(* handleApiError got an Unauthorized error at attempt 0, asked the token
   endpoint and was given a token. *)
RefreshedOnUnauthorized(o) ==
    /\ Handled(o)
    /\ MatchesUnauthorized(o.message)
    /\ o.attempt = 0
    /\ o.tokenCall
    /\ o.answer.ok

HandleAfterRefresh ==
    RefreshedOnUnauthorized(op')
    => /\ op'.shouldRetry
       /\ ~op'.newAccount
       /\ kv'.FAILED_ACCOUNTS = kv.FAILED_ACCOUNTS
       /\ kv'.LAST_FAILED_RESET_DATE = kv.LAST_FAILED_RESET_DATE
       /\ marked' = marked
       /\ authManager'.selectedAccount = authManager.selectedAccount
       /\ authManager'.selectedCredentials.access_token = op'.answer.access_token
       /\ kv'.ACCOUNT[authManager.selectedAccount].access_token = op'.answer.access_token

(* The initializeAuth of the retry keeps the account and the new token. *)
RetryKeepsAccount ==
    /\ op'.kind = "reused"
    /\ authManager' = authManager
    /\ kv' = kv

(* C22: on an Unauthorized error at attempt 0 with a refresh token
   and a successful refresh, handle returns {retry: true, forceReselect:
   false}, writes nothing to the failed set, and the retry, which starts with
   initializeAuth, is issued on the same account with the new access token. *)
C22_RetryOnSameAccountAlways ==
    [][/\ HandleAfterRefresh
       /\ (RefreshedOnUnauthorized(op) /\ op'.name = "initializeAuth") => RetryKeepsAccount]_vars

(* handleApiError got an Unauthorized error and no token: the credential has
   no refresh token, or the token endpoint refused. *)
NotRefreshedOnUnauthorized(o) ==
    /\ Handled(o)
    /\ MatchesUnauthorized(o.message)
    /\ \/ ~o.tokenCall /\ authManager.selectedCredentials.refresh_token = 0
       \/ o.tokenCall /\ ~o.answer.ok

(* C23: on an Unauthorized error where the refresh fails or the credential
   has no refresh token, the account is added to the failed set and handle
   returns {retry: attemptNumber == 0, forceReselect: true}. *)
C23_UnauthorizedWithoutRefreshMarksFailed ==
    [][NotRefreshedOnUnauthorized(op')
       => /\ op'.shouldRetry = (op'.attempt = 0)
          /\ op'.newAccount
          /\ FailedOn(kv', today) = FailedOn(kv, today) \cup {authManager.selectedAccount}
          /\ kv'.LAST_FAILED_RESET_DATE = today
          /\ kv'.ACCOUNT = kv.ACCOUNT]_vars

C23_Witness ==
    /\ Handled(op)
    /\ MatchesUnauthorized(op.message)
    /\ ~op.tokenCall
    /\ op.attempt = 0
    /\ authManager.selectedCredentials.refresh_token = 0
    /\ authManager.selectedAccount \in FailedOn(kv, today)

(* C24: on a QuotaExceeded error, at any attempt number, handle adds the
   current account to the failed set and returns {retry: attemptNumber == 0,
   forceReselect: true}; the account is in FAILED_ACCOUNTS when it returns. *)
C24_QuotaExceededMarksFailed ==
    [][(Handled(op') /\ MatchesQuota(op'.message) /\ ~MatchesUnauthorized(op'.message))
       => /\ op'.shouldRetry = (op'.attempt = 0)
          /\ op'.newAccount
          /\ ~op'.tokenCall
          /\ authManager.selectedAccount \in Range(kv'.FAILED_ACCOUNTS)
          /\ FailedOn(kv', today) = FailedOn(kv, today) \cup {authManager.selectedAccount}
          /\ kv'.LAST_FAILED_RESET_DATE = today
          /\ kv'.ACCOUNT = kv.ACCOUNT
          /\ authManager' = authManager]_vars

C24_Witness ==
    /\ Handled(op)
    /\ MatchesQuota(op.message)
    /\ ~MatchesUnauthorized(op.message)
    /\ op.attempt = 1
    /\ ~op.shouldRetry
    /\ op.stale
    /\ kv.FAILED_ACCOUNTS = <<authManager.selectedAccount>>

(* The message is neither an Unauthorized nor a QuotaExceeded one. *)
ServerOrOther(message) == ~MatchesUnauthorized(message) /\ ~MatchesQuota(message)

HandleWritesNothing ==
    /\ kv' = kv
    /\ authManager' = authManager
    /\ issued' = issued
    /\ marked' = marked
    /\ op'.shouldRetry = (op'.attempt = 0)

(* C25, as stated: handling a ProviderUnavailable or Other error writes
   nothing to the store and returns {retry: attemptNumber == 0,
   forceReselect: true}. *)
C25_NoWriteAndForceReselect ==
    [][(Handled(op') /\ ServerOrOther(op'.message))
       => /\ HandleWritesNothing
          /\ op'.newAccount]_vars

(* C25, corrected: it writes nothing and returns retry = (attemptNumber ==
   0); forceReselect is true for a ProviderUnavailable error and whenever
   retry is true. For an Other error after attempt 0 the returned object has
   no forceReselect member. *)
C25_NoWriteAndForceReselectOnRetry ==
    [][(Handled(op') /\ ServerOrOther(op'.message))
       => /\ HandleWritesNothing
          /\ op'.newAccount = (op'.shouldRetry \/ MatchesServerError(op'.message))]_vars

C25_Witness ==
    /\ Handled(op)
    /\ ServerOrOther(op.message)
    /\ ~MatchesServerError(op.message)
    /\ op.attempt = 1
    /\ ~op.shouldRetry
    /\ ~op.newAccount
    /\ kv.FAILED_ACCOUNTS = <<>>

(* C26: the classification is total, with the precedence Unauthorized,
   QuotaExceeded, ProviderUnavailable, Other: every handled error is put in
   the class of the first rule its message matches. *)
C26_ClassificationByPrecedence ==
    Handled(op)
    => op.kind = (IF MatchesUnauthorized(op.message) THEN "Unauthorized"
                  ELSE IF MatchesQuota(op.message) THEN "QuotaExceeded"
                  ELSE IF MatchesServerError(op.message) THEN "ProviderUnavailable"
                  ELSE "Other")

C26_Witness ==
    /\ Handled(op)
    /\ op.kind = "Unauthorized"
    /\ MatchesQuota(op.message)
    /\ FirstThreeDigits(op.message) = 429

-----------------------------------------------------------------------------
(* The weight assignment and the weighted walk of selectBestAccount *)

(* The candidates of a selection made now: the listed accounts that are not
   in today's failed list and whose credentials load, with their weights. *)
Weighted ==
    LET failedAccounts == getFailedAccounts(kv, today).failed
        Avail(id) == IsAvailable(failedAccounts, id)
    IN  weightedAccounts(kv, now, SelectSeq(getAllAccountIds(kv), Avail))

maxFreshnessNow == Max({Weighted[i].minutesLeft : i \in DOMAIN Weighted})

(* A selection has just been made by initializeAuth. *)
SelectionMade == op.name = "initializeAuth" /\ op.kind = "normal" /\ op.selected # NoAccount

(* C27: every candidate has the weight of the first rule of the table that
   its minutesLeft matches; an expired candidate has 0.10 even when no
   candidate is fresher. (Weights in hundredths.) *)
C27_WeightOfFirstMatchingRule ==
    \A i \in DOMAIN Weighted :
        LET ml == Weighted[i].minutesLeft
            p == Weighted[i].probability
            expired == ml < 0
            freshest == ml = maxFreshnessNow
        IN  /\ expired => p = 10
            /\ (~expired /\ freshest) => p = 85
            /\ (~expired /\ ~freshest /\ ml > 30) => p = 70
            /\ (~expired /\ ~freshest /\ ml <= 30 /\ ml > 20) => p = 50
            /\ (~expired /\ ~freshest /\ ml <= 20 /\ ml > 10) => p = 30
            /\ (~expired /\ ~freshest /\ ml <= 10 /\ ml > 5) => p = 10
            /\ (~expired /\ ~freshest /\ ml <= 5) => p = 5

(* An expired account that no candidate is fresher than was selected with
   weight 0.10, next to another candidate. *)
C27_Witness ==
    /\ SelectionMade
    /\ Len(Weighted) >= 2
    /\ \E i \in DOMAIN Weighted :
          /\ Weighted[i].accountId = op.selected
          /\ Weighted[i].minutesLeft < 0
          /\ Weighted[i].minutesLeft = maxFreshnessNow
          /\ Weighted[i].probability = 10

RECURSIVE SumOfWeights(_, _)
(* w1 + ... + wi over the weighted candidates w. *)
SumOfWeights(w, i) == IF i = 0 THEN 0 ELSE SumOfWeights(w, i - 1) + w[i].probability

(* The candidate that the cumulative weights w1, w1+w2, ... give the draw:
   the first whose cumulative weight meets or exceeds it, the first of the
   list if none does. *)
FirstReaching(w, random) ==
    LET cumulative == [i \in DOMAIN w |-> SumOfWeights(w, i)]
        reaching == {i \in DOMAIN w : cumulative[i] >= random}
    IN  IF reaching = {} THEN 1
        ELSE CHOOSE i \in reaching : \A j \in reaching : i <= j

(* C28: for every draw r, the selection returns the first candidate, in
   listing order, whose cumulative weight w1+...+wi meets or exceeds r, and
   the first candidate of the list when r exceeds the sum of all weights. *)
C28_FirstCandidateReachingDraw ==
    LET w == Weighted
    IN  \A random \in DrawGrid :
            LET selection == selectBestAccount(kv, now, today, random)
            IN  /\ selection.found = (Len(w) > 0)
                /\ selection.found =>
                      selection.accountId = w[FirstReaching(w, random)].accountId

(* Three candidates whose weights sum to less than some draw that
   initializeAuth makes; the first of the list was selected, although it is
   not the only candidate. *)
C28_Witness ==
    /\ SelectionMade
    /\ Len(Weighted) = PoolAccounts
    /\ \E random \in Draws :
          /\ random > SumOfWeights(Weighted, Len(Weighted))
          /\ selectBestAccount(kv, now, today, random).accountId = Weighted[1].accountId
    /\ op.selected = Weighted[1].accountId

(* The candidates that were given the weight 0.85. *)
TreatedAsFreshest == {i \in DOMAIN Weighted : Weighted[i].probability = 85}

(* C29, as stated: in every weight assignment at most one candidate has the
   weight 0.85. *)
C29_AtMostOneFreshest == Cardinality(TreatedAsFreshest) <= 1

(* C29, corrected: the candidates with the weight 0.85 are exactly the
   unexpired candidates whose minutesLeft equals maxFreshness, so they all
   have the same expiry_date; there is at most one of them when the expiry
   dates of the candidates differ pairwise. *)
C29_FreshestAreTheTiedMaxima ==
    LET w == Weighted
    IN  /\ TreatedAsFreshest =
              {i \in DOMAIN w : w[i].minutesLeft >= 0 /\ w[i].minutesLeft = maxFreshnessNow}
        /\ (\A i, j \in DOMAIN w :
               i # j => w[i].credentials.expiry_date # w[j].credentials.expiry_date)
           => Cardinality(TreatedAsFreshest) <= 1

(* Two candidates with the same expiry date both have 0.85, next to a third
   that has another weight, and one of the two was selected. *)
C29_Witness ==
    /\ SelectionMade
    /\ Len(Weighted) = PoolAccounts
    /\ Cardinality(TreatedAsFreshest) = 2
    /\ \E i \in TreatedAsFreshest : Weighted[i].accountId = op.selected

(* The unexpired candidates other than the selected one, in the store that
   initializeAuth's catch block reads. *)
UnexpiredOthers ==
    {id \in DOMAIN kv.ACCOUNT :
        /\ id # op'.selected
        /\ IsAvailable(getFailedAccounts(kv, today).failed, id)
        /\ kv.ACCOUNT[id].loadable
        /\ kv.ACCOUNT[id].expiry_date >= now}

(* initializeAuth's step: the proactive refresh of the selected account was
   refused and another account was taken instead. *)
FellBack ==
    /\ op'.name = "initializeAuth"
    /\ op'.tokenCall
    /\ ~op'.answer.ok
    /\ ~op'.threw

(* C30: when the proactive refresh of the selected expired account fails,
   the account used instead is the freshest unexpired one: no non-failed
   unexpired candidate has a larger expiry_date. *)
C30_FallbackIsFreshest ==
    [][FellBack
       => /\ authManager'.selectedAccount \in UnexpiredOthers
          /\ \A id \in UnexpiredOthers :
                kv.ACCOUNT[id].expiry_date
                    <= kv.ACCOUNT[authManager'.selectedAccount].expiry_date]_vars

-----------------------------------------------------------------------------
(* Proactive refresh and the failed set *)

(* The step is an initializeAuth (called directly or by switchAccount) whose
   proactive refresh of the selected account was refused. *)
ProactiveRefreshFailed ==
    /\ op'.name \in {"initializeAuth", "switchAccount"}
    /\ op'.tokenCall
    /\ ~op'.answer.ok

(* The failed set as the selection read it, before the refresh. *)
FailedBeforeRefresh == Range(getFailedAccounts(kv, today).failed)

(* C31: a failed proactive refresh of the selected expired account does not
   add the account to the failed set; FAILED_ACCOUNTS has the entries after
   the refresh failure that it had before it. *)
C31_ProactiveFailureMarksNothing ==
    [][ProactiveRefreshFailed
       => /\ Range(kv'.FAILED_ACCOUNTS) = FailedBeforeRefresh
          /\ op'.selected \notin Range(kv'.FAILED_ACCOUNTS)
          /\ marked' = marked]_vars

(* chatCompletions is in its catch clause with the error that initializeAuth
   threw when the proactive refresh of op.selected was refused. *)
CaughtProactiveFailure ==
    /\ pc = "catch"
    /\ op.name = "initializeAuth"
    /\ op.threw
    /\ op.tokenCall
    /\ ~op.answer.ok

(* C31, through the catch clause of chatCompletions: handling the error of
   the failed proactive refresh does not add the account to the failed set
   either. *)
C31_NeverMarkedForProactiveFailure ==
    /\ C31_ProactiveFailureMarksNothing
    /\ [][(CaughtProactiveFailure /\ op'.name = "handleApiError")
          => /\ op.selected \notin Range(kv'.FAILED_ACCOUNTS)
             /\ marked' = marked]_vars

-----------------------------------------------------------------------------
(* Concurrent writers of the failed list *)

(* The step is a worker's put of the empty list (the reset of line 64). *)
ClearsFailedAccounts ==
    \E i \in DOMAIN workers.w :
        /\ workers.w[i].pc = "clear"
        /\ workers'.w[i].pc = "date"

(* C32: once a request has completed the reset for the UTC day, no other
   request's reset for that day clears the list again; an entry added after
   the reset is not erased by a request that had read the stale date. *)
C32_ResetOncePerDay ==
    [][(kv.LAST_FAILED_RESET_DATE = today /\ kv.FAILED_ACCOUNTS # <<>>)
       => ~ClearsFailedAccounts]_vars

AllDone == workers.w # <<>> /\ \A i \in DOMAIN workers.w : workers.w[i].pc = "done"

DistinctAccounts ==
    \A i, j \in DOMAIN workers.w : i # j => workers.w[i].accountId # workers.w[j].accountId

(* The worker's account was not in the list it read, so it put the list. *)
Wrote(i) == workers.w[i].accountId \notin Range(workers.w[i].failed)

(* C33: concurrent markAccountAsFailed calls for distinct accounts all run
   to their end without an error, and the last writer wins: at every moment
   FAILED_ACCOUNTS is the list of the latest put, and when the calls have
   ended it is what the last writer had read plus the writer's account,
   whatever the other calls wrote. *)
C33_LastWriterWins ==
    /\ workers.puts # <<>>
       => LET last == workers.puts[Len(workers.puts)]
              writer == workers.w[last.by]
          IN  /\ kv.FAILED_ACCOUNTS = last.value
              /\ last.value \in {<<>>, Append(writer.failed, writer.accountId)}
    /\ (AllDone /\ DistinctAccounts)
       => /\ \A i \in DOMAIN workers.w :
                Wrote(i) => \E k \in DOMAIN workers.puts :
                               /\ workers.puts[k].by = i
                               /\ workers.puts[k].value =
                                      Append(workers.w[i].failed, workers.w[i].accountId)
          /\ workers.puts # <<>>
             => LET last == workers.puts[Len(workers.puts)]
                IN  kv.FAILED_ACCOUNTS =
                        Append(workers.w[last.by].failed, workers.w[last.by].accountId)

(* Two calls for two accounts have ended, neither had a reset to make, and
   only one of the two accounts is in the failed list. *)
C33_Witness ==
    /\ AllDone
    /\ DistinctAccounts
    /\ \A i \in DOMAIN workers.w : workers.w[i].lastResetDate = today /\ Wrote(i)
    /\ Len(kv.FAILED_ACCOUNTS) = 1
    /\ \E i \in DOMAIN workers.w : kv.FAILED_ACCOUNTS = <<workers.w[i].accountId>>

-----------------------------------------------------------------------------
(* The credential that a selection hands out *)

(* chatCompletions' initializeAuth has returned and the access token check
   has passed: the provider call is next. *)
HandsOutCredential ==
    /\ op'.name = "initializeAuth"
    /\ ~op'.threw
    /\ pc' = "call"

(* C34: when the selection returns successfully, the credential it hands to
   the provider call is not expired at that moment, whether it was read
   unexpired, kept from the pass before, just refreshed, or a fallback. *)
C34_HandedCredentialNotExpired ==
    [][HandsOutCredential
       => /\ authManager'.selectedAccount # NoAccount
          /\ authManager'.selectedCredentials.loadable
          /\ ~(authManager'.selectedCredentials.expiry_date < now')]_vars

(* The selected account was expired, its refresh was refused, and the
   provider call is about to be made with the fallback account's token. *)
C34_Witness ==
    /\ pc = "call"
    /\ op.name = "initializeAuth"
    /\ op.tokenCall
    /\ ~op.answer.ok
    /\ op.selected # authManager.selectedAccount
    /\ authManager.selectedCredentials.expiry_date > now

-----------------------------------------------------------------------------
(* The endpoint of a refreshed account *)

(* The step stored a refreshed credential for the account. *)
Refreshed(id) ==
    /\ op'.tokenCall
    /\ op'.answer.ok
    /\ kv'.ACCOUNT[id] # kv.ACCOUNT[id]

(* C35: a token refresh changes the token fields of the stored credential
   only: the account's resource_url is the same after the refresh as before
   it, and so is the endpoint that a provider call with the account goes to. *)
C35_RefreshKeepsEndpoint ==
    [][\A id \in DOMAIN kv.ACCOUNT :
          Refreshed(id)
          => /\ kv'.ACCOUNT[id].resource_url = kv.ACCOUNT[id].resource_url
             /\ getApiEndpoint(kv'.ACCOUNT[id]) = getApiEndpoint(kv.ACCOUNT[id])]_vars

-----------------------------------------------------------------------------
(* Marking an account failed when the store does not answer *)

(* Worker i puts its list, having got no answer to its get of the failed
   list. *)
WritesAfterFailedGet(i) ==
    /\ workers.w[i].pc = "write"
    /\ workers.w[i].getThrew
    /\ workers'.w[i].pc = "done"

(* C36: when the get of FAILED_ACCOUNTS fails while an account is being
   marked failed, the accounts recorded on that day are not erased: the
   stored non-empty list is not replaced by a list of the new account alone. *)
C36_FailedGetErasesNothing ==
    [][\A i \in DOMAIN workers.w :
          (/\ WritesAfterFailedGet(i)
           /\ kv.LAST_FAILED_RESET_DATE = today
           /\ kv.FAILED_ACCOUNTS # <<>>)
          => Range(kv.FAILED_ACCOUNTS) \subseteq Range(kv'.FAILED_ACCOUNTS)]_vars

-----------------------------------------------------------------------------
(* The payloads that the relay re-emits *)

RECURSIVE PayloadEvents(_)
(* The chunks of the parsable payloads of a list of upstream lines, in
   order, up to the [DONE] line if there is one. *)
PayloadEvents(lines) ==
    IF lines = <<>> THEN <<>>
    ELSE LET line == Head(lines)
             data == substring(line, 6)
         IN  IF ~startsWith(line, DataPrefix) THEN PayloadEvents(Tail(lines))
             ELSE IF data = DoneText THEN <<>>
             ELSE IF JsonParse(data).ok
             THEN <<ChunkEvent(JsonParse(data).id)>> \o PayloadEvents(Tail(lines))
             ELSE PayloadEvents(Tail(lines))

(* The upstream lines that a newline terminates, and all of them. *)
TerminatedLines(text) == SubSeq(split(text), 1, Len(split(text)) - 1)

AllLines(text) == split(text)

IsChunk(event) == event.type = "chunk"

ChunksWritten == SelectSeq(relay.output, IsChunk)

IsPrefix(a, b) == Len(a) <= Len(b) /\ SubSeq(b, 1, Len(a)) = a

(* The relay has closed its output after the upstream's [DONE] or end. *)
RelayedToTheEnd ==
    /\ relay.pc = "closed"
    /\ ~relay.cancelled
    /\ relay.ended # "readError"

(* A data line of the upstream whose payload does not parse, with a payload
   that parses on a later line. *)
HasBadPayloadBeforeGood(text) ==
    LET lines == TerminatedLines(text)
        Bad(i) == /\ startsWith(lines[i], DataPrefix)
                  /\ substring(lines[i], 6) # DoneText
                  /\ ~JsonParse(substring(lines[i], 6)).ok
    IN  \E i \in DOMAIN lines :
           /\ Bad(i)
           /\ PayloadEvents(SubSeq(lines, i + 1, Len(lines))) # <<>>

(* C37: a data line whose payload does not parse produces no output and
   does not stop the relay: the chunks written are, in upstream order, those
   of the parsable payloads of the terminated lines, and all of them once the
   relay has closed; no error chunk is written for a payload. *)
C37_BadPayloadSkipped ==
    /\ IsPrefix(ChunksWritten, PayloadEvents(TerminatedLines(relay.input)))
    /\ RelayedToTheEnd
       => /\ ChunksWritten = PayloadEvents(TerminatedLines(relay.input))
          /\ EventsOfType(relay.output, "error") = {}

C37_Witness ==
    /\ RelayedToTheEnd
    /\ HasBadPayloadBeforeGood(relay.input)
    /\ relay.split
    /\ Len(ChunksWritten) = 2

(* C38: every parsable payload that the upstream sent before it ended or
   sent [DONE] is re-emitted exactly once, the payload of a last line that no
   newline terminates included. *)
C38_EveryPayloadRelayedOnce ==
    RelayedToTheEnd => ChunksWritten = PayloadEvents(AllLines(relay.input))

-----------------------------------------------------------------------------
(* GET /admin/health: MultiAccountAuthManager.getAccountsHealth *)

(* The status and apiStatus that the catch clause of the loop derives from the
   text of the error; a request that returned is healthy. *)
HealthStatus(result) ==
    IF result.kind # "error" THEN [status |-> "healthy", apiStatus |-> 200]
    ELSE IF result.error.marks \cap {"429", "quota"} # {}
    THEN [status |-> "quota_exceeded", apiStatus |-> 429]
    ELSE IF result.error.marks \cap {"401", "unauthorized"} # {}
    THEN [status |-> "error", apiStatus |-> 401]
    ELSE IF result.error.marks \cap {"500", "502", "504"} # {}
    THEN [status |-> "error", apiStatus |-> 500]
    ELSE [status |-> "error", apiStatus |-> 0]

(* results.push(...), the finally clause, and the next iteration or the
   return. *)
HealthPush(h, entry) ==
    [h EXCEPT !.results = Append(h.results, entry),
              !.forcedAccount = clearForcedAccount(NewManager).forcedAccount,
              !.index = h.index + 1,
              !.pc = IF h.index = Len(h.allAccountIds) THEN "returned" ELSE "loop"]

(* new MultiAccountAuthManager(c.env) of the route and the first two awaits
   of getAccountsHealth. *)
HealthStart ==
    /\ pc \in {"idle", "done"}
    /\ health.pc \in {"idle", "returned"}
    /\ LET g == getFailedAccounts(kv, today)
           ids == getAllAccountIds(kv)
       IN  /\ kv' = g.kv
           /\ health' = [NoHealth EXCEPT !.pc = IF ids = <<>> THEN "returned" ELSE "loop",
                                         !.allAccountIds = ids, !.index = 1,
                                         !.failedAccounts = g.failed]
    /\ op' = [OpNone EXCEPT !.name = "getAccountsHealth"]
    /\ UNCHANGED <<tokenCalls, workers, selections, http, relay, now, today, issued,
                   authManager, pc, stream, retryCount, caught, outcome, calls,
                   handled, marked>>

(* One iteration up to the test request: forceSelectAccount on the manager
   of the route, the credentials of the account, and new QwenAPIClient(env),
   whose constructor makes a manager of its own, followed by the call of
   client.chatCompletions(testRequest); testRequest has no stream field. *)
HealthProbe ==
    /\ health.pc = "loop"
    /\ LET accountId == health.allAccountIds[health.index]
           forced == forceSelectAccount(NewManager, accountId)
           credentials == loadAccountCredentials(kv, accountId)
       IN  IF ~credentials.loadable
           THEN /\ health' = HealthPush(health,
                                 [account |-> accountId, status |-> "missing_credentials",
                                  apiStatus |-> 0, expired |-> FALSE,
                                  isFailed |-> accountId \in Range(health.failedAccounts)])
                /\ UNCHANGED <<authManager, pc, stream, retryCount, caught, outcome,
                               calls, handled, selections, tokenCalls>>
           ELSE /\ health' = [health EXCEPT !.pc = "probing",
                                            !.forcedAccount = forced.forcedAccount]
                /\ authManager' = NewManager
                /\ pc' = "auth"
                /\ stream' = FALSE
                /\ retryCount' = 0
                /\ caught' = NoError
                /\ outcome' = NoOutcome
                /\ calls' = <<>>
                /\ handled' = <<>>
                /\ selections' = 0
                /\ tokenCalls' = <<>>
    /\ op' = [OpNone EXCEPT !.name = "healthProbe"]
    /\ UNCHANGED <<workers, http, relay, kv, now, today, issued, marked>>

(* The rest of the iteration, once chatCompletions has returned or thrown. *)
HealthRecord ==
    /\ health.pc = "probing"
    /\ pc = "done"
    /\ LET accountId == health.allAccountIds[health.index]
           credentials == loadAccountCredentials(kv, accountId)
           st == HealthStatus(outcome)
       IN  health' = HealthPush(health,
                        [account |-> accountId, status |-> st.status,
                         apiStatus |-> st.apiStatus,
                         expired |-> credentials.loadable /\ credentials.expiry_date < now,
                         isFailed |-> accountId \in Range(health.failedAccounts)])
    /\ op' = [OpNone EXCEPT !.name = "healthRecord"]
    /\ UNCHANGED <<tokenCalls, workers, selections, http, relay, kv, now, today, issued,
                   authManager, pc, stream, retryCount, caught, outcome, calls,
                   handled, marked>>

NextHealth ==
    \/ HealthStart
    \/ HealthProbe
    \/ Authenticate
    \/ ProviderCall
    \/ Catch
    \/ Switch
    \/ HealthRecord
    \/ Tick

SpecHealth == Init /\ [][NextHealth]_vars

-----------------------------------------------------------------------------
(* The network calls of one request *)

InFlight == pc \in {"auth", "call", "catch", "switch"}

TokenCallsBy(callers) == {i \in DOMAIN tokenCalls : tokenCalls[i].by \in callers}

ProactiveRefreshes == TokenCallsBy({"initializeAuth", "switchAccount"})

ReactiveRefreshes == TokenCallsBy({"handleApiError"})

NetworkCallsBounded ==
    /\ Len(calls) <= 2
    /\ Len(tokenCalls) <= 3
    /\ Cardinality(ProactiveRefreshes) <= selections
    /\ Cardinality(ReactiveRefreshes) <= 1

Terminated ==
    /\ pc = "done"
    /\ outcome.kind \in {"completion", "stream", "error"}

(* C39: a request makes at most two provider calls and at most three
   token-endpoint calls, at most one proactive refresh per selection and one
   reactive refresh, and it terminates with a completion, a stream or an
   error. *)
C39_TerminatesWithinBoundedCalls ==
    /\ []NetworkCallsBounded
    /\ InFlight ~> Terminated

C39_Witness ==
    /\ Terminated
    /\ Len(tokenCalls) = 3
    /\ selections = 3

-----------------------------------------------------------------------------
(* The account that a health check tests *)

Probed == health.allAccountIds[health.index]

(* C40: the test request made for an account is executed with that account's
   credentials. *)
C40_TestRequestUsesProbedAccount ==
    health.pc = "probing"
    => \A i \in DOMAIN calls : calls[i].account = Probed

====
